---- MODULE Spec2Model ----
(***************************************************************************)
(* Verification model of mr-status-monitor.                                *)
(*                                                                         *)
(*   - the HTTP retry client      src/src/gitlab_api.py  make_gitlab_request*)
(*   - the merge request list     src/src/mr_model.py    MRModel           *)
(*   - the notification gate      src/src/mr_notifier.py MRNotifier        *)
(*   - the status resolvers       src/src/gitlab_api.py  get_*_status      *)
(*   - the fetch worker           src/src/mr_status_controller.py          *)
(*                                                      fetch_mr_data_worker*)
(*   - the foreground controller  src/src/mr_status_controller.py          *)
(*                                                      MRStatusController  *)
(*                                                                         *)
(* Each component has its own specification (SpecRetry, SpecModel,         *)
(* SpecGate, SpecResolve, SpecWorker, SpecController) over the shared      *)
(* variables; a component's actions leave the variables of the components  *)
(* they do not call unchanged.                                             *)
(***************************************************************************)
EXTENDS Integers, Sequences, FiniteSets, TLC

VARIABLES
    req,            \* retry client: the last make_gitlab_request call and its trace
    data,           \* MRModel._data
    target,         \* the repo_name argument of the last MRModel call that takes one
    today,          \* date.today()
    markers,        \* notified_<key>.date files of MRNotifier.state_dir
    person_cache,   \* MRNotifier.person_cache
    slack_token,    \* MRNotifier.slack_token is set
    sentToday,      \* chat messages delivered per marker file on the current day
    pc,             \* where process_mr_for_notification stands
    ev,             \* the evaluation under way, or the last one: its inputs and what it did
    res,            \* status resolvers: the last call, its answers from upstream and its result
    repo_queue,     \* the queue of repository requests, foreground to worker
    result_queue,   \* the queue of result messages, worker to foreground
    wpc,            \* where fetch_mr_data_worker stands
    current,        \* the request the worker has dequeued and is processing
    wk,             \* the worker's last iteration: what upstream answered, what it put
    refreshes,      \* the number of queue_refresh calls made
    cleaning,       \* cleanup has put the sentinel and waits for the worker in join
    cpc,            \* controller: constructed, or initialize_data has ended ("stopped", "running")
    loading,        \* MRStatusController._loading
    repos_loaded,   \* MRStatusController._repos_loaded
    produced,       \* the repositories of which a complete batch was consumed
    emitted,        \* the values loadingChanged was emitted with, in order
    resolved,       \* the names of the repositories whose configuration has a project_id
    notifier,       \* MRStatusController.notifier is set
    fg,             \* the operations making blocking requests that the foreground has run
    act             \* the operation that made the last step

vars == <<req, data, target, today, markers, person_cache, slack_token, sentToday, pc, ev,
          res, repo_queue, result_queue, wpc, current, wk, refreshes, cleaning,
          cpc, loading, repos_loaded, produced, emitted, resolved, notifier, fg, act>>

retryVars == <<req>>
modelVars == <<data, target>>
gateVars == <<today, markers, person_cache, slack_token, sentToday, pc, ev>>
resolveVars == <<res>>
workerVars == <<repo_queue, result_queue, wpc, current, wk, refreshes, cleaning>>
controllerVars == <<cpc, loading, repos_loaded, produced, emitted, resolved, notifier, fg>>

(***************************************************************************)
(* Bounds of the model.                                                    *)
(***************************************************************************)
\* largest max_retries a call is made with
MaxRetriesTried == 3
\* longest new_items list handed to update_repo_data
MaxItems == 3
\* number of calendar days a run covers
MaxDay == 2
\* number of queue_refresh calls of a run
MaxRefreshes == 1
\* longest MR title, in characters
MaxTitleLen == 52

(***************************************************************************)
(* HTTP retry client: make_gitlab_request, gitlab_api.py:14-37.            *)
(***************************************************************************)
\* default max_retries of make_gitlab_request
DefaultMaxRetries == 3
\* default base_delay of make_gitlab_request
DefaultBaseDelay == 1
\* the fixed penalty added to the delay after an HTTP 429
RateLimitPenalty == 5
\* the base delays calls are made with
BaseDelays == {DefaultBaseDelay, 2}

\* What one requests.get can end in: HTTP 200, HTTP 429, another HTTP status,
\* requests.exceptions.Timeout, any other exception.
Outcomes == {"200", "429", "other_status", "timeout", "error"}

\* faulty variant: the rate limit penalty is left out
RateLimitDelayNoPenalty(base_delay, attempt) == base_delay * (2 ^ attempt)

\* delay = base_delay * (2 ** attempt) + 5            (line 22)
RateLimitDelay(base_delay, attempt) == base_delay * (2 ^ attempt) + RateLimitPenalty

\* delay = base_delay * (2 ** attempt)                (line 29)
TimeoutDelay(base_delay, attempt) == base_delay * (2 ^ attempt)

\* faulty variant: the sleep is not skipped on the final attempt
SleepsAlways(attempt, max_retries) == TRUE

\* if attempt < max_retries - 1                       (lines 31, 35)
SleepsBeforeRetry(attempt, max_retries) == attempt < max_retries - 1

Request(attempt) == [kind |-> "request", attempt |-> attempt, delay |-> 0]
Sleep(attempt, delay) == [kind |-> "sleep", attempt |-> attempt, delay |-> delay]

\* faulty variant: no handler for exceptions other than Timeout
AttemptBodyNoCatch(outcome, attempt, max_retries, base_delay) ==
    CASE outcome = "200" ->
           [events |-> <<Request(attempt)>>, returns |-> "json"]
      [] outcome = "429" ->
           [events |-> <<Request(attempt), Sleep(attempt, base_delay * (2 ^ attempt) + 5)>>,
            returns |-> "no"]
      [] outcome = "other_status" ->
           [events |-> <<Request(attempt)>>, returns |-> "none"]
      [] outcome = "timeout" ->
           [events |-> IF attempt < max_retries - 1
                       THEN <<Request(attempt), Sleep(attempt, base_delay * (2 ^ attempt))>>
                       ELSE <<Request(attempt)>>,
            returns |-> "no"]
      [] OTHER ->
           [events |-> <<Request(attempt)>>, returns |-> "raise"]

\* faulty variant: every status other than 200 is retried like a 429
AttemptBodyRetryAnyStatus(outcome, attempt, max_retries, base_delay) ==
    CASE outcome = "200" ->
           [events |-> <<Request(attempt)>>, returns |-> "json"]
      [] outcome \in {"429", "other_status"} ->
           [events |-> <<Request(attempt), Sleep(attempt, base_delay * (2 ^ attempt) + 5)>>,
            returns |-> "no"]
      [] outcome = "timeout" ->
           [events |-> IF attempt < max_retries - 1
                       THEN <<Request(attempt), Sleep(attempt, base_delay * (2 ^ attempt))>>
                       ELSE <<Request(attempt)>>,
            returns |-> "no"]
      [] OTHER ->
           [events |-> IF attempt < max_retries - 1
                       THEN <<Request(attempt), Sleep(attempt, base_delay)>>
                       ELSE <<Request(attempt)>>,
            returns |-> "no"]

\* The events of the loop body for one attempt whose requests.get ended in outcome,
\* and whether the function returns from inside the body.
\*   returns: "json" (line 20), "none" (line 27), "no" (the loop goes on),
\*            "raise" (an exception no handler of the try statement catches)
AttemptBody(outcome, attempt, max_retries, base_delay) ==
    CASE outcome = "200" ->
           [events |-> <<Request(attempt)>>, returns |-> "json"]
      [] outcome = "429" ->
           [events |-> <<Request(attempt), Sleep(attempt, RateLimitDelay(base_delay, attempt))>>,
            returns |-> "no"]
      [] outcome = "other_status" ->
           [events |-> <<Request(attempt)>>, returns |-> "none"]
      [] outcome = "timeout" ->   \* except requests.exceptions.Timeout (line 28)
           [events |-> IF SleepsBeforeRetry(attempt, max_retries)
                       THEN <<Request(attempt), Sleep(attempt, TimeoutDelay(base_delay, attempt))>>
                       ELSE <<Request(attempt)>>,
            returns |-> "no"]
      [] OTHER ->   \* except Exception (line 33)
           [events |-> IF SleepsBeforeRetry(attempt, max_retries)
                       THEN <<Request(attempt), Sleep(attempt, base_delay)>>
                       ELSE <<Request(attempt)>>,
            returns |-> "no"]

\* for attempt in range(max_retries): ... ; return None
\* outs[attempt + 1] is what the network does to the request of that attempt.
RECURSIVE RetryLoop(_, _, _, _, _)
RetryLoop(outs, attempt, max_retries, base_delay, events) ==
    IF attempt >= max_retries
    THEN [result |-> "none", raised |-> FALSE, events |-> events]
    ELSE LET body == AttemptBody(outs[attempt + 1], attempt, max_retries, base_delay)
         IN  IF body.returns = "no"
             THEN RetryLoop(outs, attempt + 1, max_retries, base_delay, events \o body.events)
             ELSE [result |-> IF body.returns = "raise" THEN "none" ELSE body.returns,
                   raised |-> body.returns = "raise",
                   events |-> events \o body.events]

make_gitlab_request(outs, max_retries, base_delay) ==
    RetryLoop(outs, 0, max_retries, base_delay, <<>>)

\* The sequences of n per-attempt outcomes.
OutcomeSeqs(n) == [1..n -> Outcomes]

NoRequest ==
    [outs |-> <<>>, max_retries |-> 0, base_delay |-> 0,
     result |-> "none", raised |-> FALSE, events |-> <<>>]

\* One call of make_gitlab_request, with the outcomes the network has in store
\* for its attempts.
CallRequest ==
    /\ \E max_retries \in 0..MaxRetriesTried, base_delay \in BaseDelays :
         \E outs \in OutcomeSeqs(max_retries) :
            LET r == make_gitlab_request(outs, max_retries, base_delay)
            IN  req' = [outs |-> outs, max_retries |-> max_retries, base_delay |-> base_delay,
                        result |-> r.result, raised |-> r.raised, events |-> r.events]
    /\ act' = "make_gitlab_request"
    /\ UNCHANGED <<modelVars, gateVars, resolveVars, workerVars, controllerVars>>

(***************************************************************************)
(* Text: Python strings are sequences of characters, compared by code      *)
(* point.                                                                  *)
(***************************************************************************)
\* The characters the model's strings are made of, in code point order.
Alphabet == <<"!", "-", "/", "0", "1", "2", "3", "4", "5", "6", "7", "8", "9", "_", "a", "b">>

Ord(ch) == CHOOSE i \in DOMAIN Alphabet : Alphabet[i] = ch

DigitChars == <<"0", "1", "2", "3", "4", "5", "6", "7", "8", "9">>

IsDigit(ch) == \E i \in DOMAIN DigitChars : DigitChars[i] = ch

DigitValue(ch) == (CHOOSE i \in DOMAIN DigitChars : DigitChars[i] = ch) - 1

\* str(n) for an integer n >= 0
RECURSIVE Str(_)
Str(n) ==
    IF n < 10 THEN <<DigitChars[n + 1]>>
    ELSE Str(n \div 10) \o <<DigitChars[(n % 10) + 1]>>

\* int(s) for a non-empty string of decimal digits; ValueError otherwise
ValueError == -1

RECURSIVE IntOfDigits(_, _)
IntOfDigits(s, acc) ==
    IF s = <<>> THEN acc
    ELSE IF IsDigit(Head(s)) THEN IntOfDigits(Tail(s), acc * 10 + DigitValue(Head(s)))
    ELSE ValueError

ParseInt(s) == IF s = <<>> THEN ValueError ELSE IntOfDigits(s, 0)

\* a < b for two strings
RECURSIVE StrLess(_, _)
StrLess(a, b) ==
    IF b = <<>> THEN FALSE
    ELSE IF a = <<>> THEN TRUE
    ELSE IF Head(a) = Head(b) THEN StrLess(Tail(a), Tail(b))
    ELSE Ord(Head(a)) < Ord(Head(b))

(***************************************************************************)
(* MRModel, mr_model.py.                                                   *)
(***************************************************************************)
\* repository names of the configuration
Repos == {<<"a">>, <<"a", "b">>}

\* MR numbers (iid) the upstream reports
Iids == {1, 2, 10}

\* mr_number = f"!{mr['iid']}"               (mr_status_controller.py:288)
MrLabel(iid) == <<"!">> \o Str(iid)

\* key = f"{repo_name}-{new_item['mr']}"     (mr_model.py:87)
ItemKey(repo_name, mr) == repo_name \o <<"-">> \o mr

\* an entry without an 'mr' key
NoLabel == <<>>

\* int(x.get('mr', '!0')[1:] or 0)           (mr_model.py:104)
\* no 'mr' key: the default '!0'; nothing after the first character: 0
MrNumber(mr) ==
    IF mr = NoLabel THEN 0
    ELSE IF Tail(mr) = <<>> THEN 0
    ELSE ParseInt(Tail(mr))

\* (x.get('repo', ''), int(...)) of x is less than that of y
SortKeyLess(x, y) ==
    \/ StrLess(x.repo, y.repo)
    \/ x.repo = y.repo /\ MrNumber(x.mr) < MrNumber(y.mr)

\* list.sort is stable: x goes behind every entry whose key is not greater
RECURSIVE InsertSorted(_, _)
InsertSorted(sorted, x) ==
    IF sorted = <<>> THEN <<x>>
    ELSE IF SortKeyLess(x, Head(sorted)) THEN <<x>> \o sorted
    ELSE <<Head(sorted)>> \o InsertSorted(Tail(sorted), x)

RECURSIVE StableSort(_, _)
StableSort(items, sorted) ==
    IF items = <<>> THEN sorted
    ELSE StableSort(Tail(items), InsertSorted(sorted, Head(items)))

\* the key function of the sort raises on some entry: int() of text that is
\* not a number
SortRaises(items) == \E i \in DOMAIN items : MrNumber(items[i].mr) = ValueError

\* _sort_data: a key that raises ValueError leaves the list as it was (the
\* exception leaves _sort_data)
sort_data(items) ==
    IF SortRaises(items)
    THEN items
    ELSE StableSort(items, <<>>)

\* faulty variant: no entry is deleted
clear_repo_nothing(items, repo_name) == items

\* faulty variant: every entry is deleted, whatever its repository
clear_repo_everything(items, repo_name) == <<>>

\* clear_repo: delete every entry of the repository, keep the others in order
RECURSIVE clear_repo(_, _)
clear_repo(items, repo_name) ==
    IF items = <<>> THEN <<>>
    ELSE IF Head(items).repo = repo_name THEN clear_repo(Tail(items), repo_name)
    ELSE <<Head(items)>> \o clear_repo(Tail(items), repo_name)

\* the loop of update_repo_data: key = ...; new_item['key'] = key; append
RECURSIVE AppendItems(_, _, _)
AppendItems(items, repo_name, new_items) ==
    IF new_items = <<>> THEN items
    ELSE AppendItems(Append(items, [Head(new_items) EXCEPT !.key = ItemKey(repo_name, Head(new_items).mr)]),
                     repo_name, Tail(new_items))

\* faulty variant: an empty batch leaves the list as it is
update_repo_data_skips_empty(items, repo_name, new_items) ==
    IF new_items = <<>> THEN items
    ELSE sort_data(AppendItems(clear_repo(items, repo_name), repo_name, new_items))

\* update_repo_data: clear_repo, the appends, sort_data
update_repo_data(items, repo_name, new_items) ==
    sort_data(AppendItems(clear_repo(items, repo_name), repo_name, new_items))

\* the entry the controller builds for one MR of the batch of repo_name
\* (mr_status_controller.py:296-304); the key is set by update_repo_data
NewItem(repo_name, iid) == [repo |-> repo_name, mr |-> MrLabel(iid), key |-> <<>>]

\* the item lists of at most MaxItems entries
ItemLists(repo_name) ==
    UNION {[1..n -> {NewItem(repo_name, iid) : iid \in Iids}] : n \in 0..MaxItems}

UpdateRepoData ==
    /\ \E repo_name \in Repos : \E new_items \in ItemLists(repo_name) :
          /\ data' = update_repo_data(data, repo_name, new_items)
          /\ target' = repo_name
    /\ act' = "update_repo_data"
    /\ UNCHANGED <<retryVars, gateVars, resolveVars, workerVars, controllerVars>>

ClearRepo ==
    /\ \E repo_name \in Repos :
          /\ data' = clear_repo(data, repo_name)
          /\ target' = repo_name
    /\ act' = "clear_repo"
    /\ UNCHANGED <<retryVars, gateVars, resolveVars, workerVars, controllerVars>>

\* clear_all
ClearAll ==
    /\ data' = <<>>
    /\ target' = <<>>
    /\ act' = "clear_all"
    /\ UNCHANGED <<retryVars, gateVars, resolveVars, workerVars, controllerVars>>

(***************************************************************************)
(* Notification gate: MRNotifier, mr_notifier.py, and the calls it makes   *)
(* into gitlab_api.py.                                                     *)
(*                                                                         *)
(* The state directory is taken to be readable and writable: open() on a   *)
(* marker file does not fail.  A date is a day number; NoFile stands for a *)
(* marker file that does not exist.                                        *)
(***************************************************************************)
NoFile == 0

\* display names of the people upstream reports as assignees, reviewers, approvers
People == {"A", "B"}

\* MR numbers of the records handed to the gate
GateIids == {42}

\* mr_key = f"{repo_name}-{mr_iid}"                     (line 277)
MrKey(repo_name, iid) == repo_name \o <<"-">> \o Str(iid)

\* mr_key.replace('/', '_').replace('!', '_')           (line 73)
\* the marker file is named after the result
DateFile(mr_key) ==
    [i \in DOMAIN mr_key |-> IF mr_key[i] \in {"/", "!"} THEN "_" ELSE mr_key[i]]

Files == {DateFile(MrKey(r, i)) : r \in Repos, i \in GateIids}

\* faulty variant: the marker is never consulted
should_notify_always(ms, file, day) == TRUE

\* _should_notify                                       (lines 79-90)
should_notify(ms, file, day) ==
    IF ms[file] = NoFile THEN TRUE ELSE ms[file] # day

\* faulty variant: the marker is not written
mark_notified_skipped(ms, file, day) == ms

\* _mark_notified: f.write(today)                       (lines 99-107)
mark_notified(ms, file, day) == [ms EXCEPT ![file] = day]

\* faulty variant: the gate reads the wrong flag
ApprovedByAllWrongFlag(rec) ==
    IF ~rec.approval.present THEN FALSE ELSE rec.approval.approved_except_coverage

\* approval_status.get('approved_by_all', False), when the record has an
\* approval_status                                      (lines 297-299)
ApprovedByAll(rec) ==
    IF ~rec.approval.present THEN FALSE ELSE rec.approval.approved_by_all

\* faulty variant: the pipeline status is not looked at
CoverageDueAnyPipeline(rec) ==
    /\ rec.approval.present
    /\ rec.approval.approved_except_coverage
    /\ rec.approval.needs_coverage_check

\* the condition of _check_and_add_coverage_reviewers    (lines 178-186)
CoverageDue(rec) ==
    /\ rec.approval.present
    /\ rec.pipeline_status # "absent"
    /\ rec.pipeline_status = "success"
    /\ rec.approval.approved_except_coverage
    /\ rec.approval.needs_coverage_check

\* faulty variant: the filter is inverted and keeps the approvers
PendingReviewersApprovedOnly(assignees, approved_users) ==
    SelectSeq(assignees, LAMBDA a : \E i \in DOMAIN approved_users : approved_users[i] = a)

\* faulty variant: the approvers are not filtered out
PendingReviewersUnfiltered(assignees, approved_users) == assignees

\* pending_reviewers = [a for a in assignees if a not in approved_users] (line 311)
PendingReviewers(assignees, approved_users) ==
    SelectSeq(assignees, LAMBDA a : \A i \in DOMAIN approved_users : approved_users[i] # a)

Contains(names, n) == \E i \in DOMAIN names : names[i] = n

\* append the names of others that are not yet in names (gitlab_api.py:224-233)
RECURSIVE AppendNew(_, _)
AppendNew(names, others) ==
    IF others = <<>> THEN names
    ELSE AppendNew(IF Contains(names, Head(others)) THEN names ELSE Append(names, Head(others)),
                   Tail(others))

\* get_mr_assignees_and_approvals                       (gitlab_api.py:206-253)
\* mr: the answer to GET merge_requests/{iid}; approvals: the answer to
\* GET merge_requests/{iid}/approvals; a status "raise" is a request that raises.
get_mr_assignees_and_approvals(mr, approvals) ==
    IF mr.status = "raise" THEN
        [outcome |-> "raise", assignees |-> <<>>, approved |-> <<>>, requests |-> 1]
    ELSE IF mr.status # "200" THEN
        [outcome |-> "non200", assignees |-> <<>>, approved |-> <<>>, requests |-> 1]
    ELSE
        LET fromAssignees == mr.assignees
            withAssignee == IF mr.assignee = "None" THEN fromAssignees
                            ELSE AppendNew(fromAssignees, <<mr.assignee>>)
            all == AppendNew(withAssignee, mr.reviewers)
        IN  IF approvals.status = "raise" THEN
                [outcome |-> "raise", assignees |-> <<>>, approved |-> <<>>, requests |-> 2]
            ELSE
                [outcome |-> "ok", assignees |-> all,
                 approved |-> IF approvals.status = "200" THEN approvals.approved_by ELSE <<>>,
                 requests |-> 2]

\* a value of the person cache: no entry, a cached null, a chat user id
NotCached == <<"absent">>
NoneId == <<"None">>
\* the chat user id the directory holds for a person
SlackUserId(name) == <<"U", name>>
\* what the message says for one reviewer: f"<@{slack_user_id}>", or the name
Mention(id) == <<"<@", id[2], ">">>
PlainName(name) == <<name>>

\* faulty variant: the cache is not consulted
get_slack_user_id_uncached(cache, name, token, found) ==
    IF ~token THEN
        [id |-> NoneId, cache |-> cache, requested |-> FALSE]
    ELSE IF found = "found" THEN
        [id |-> SlackUserId(name), cache |-> [cache EXCEPT ![name] = SlackUserId(name)],
         requested |-> TRUE]
    ELSE IF found = "not_found" THEN
        [id |-> NoneId, cache |-> [cache EXCEPT ![name] = NoneId], requested |-> TRUE]
    ELSE
        [id |-> NoneId, cache |-> cache, requested |-> TRUE]

\* _get_slack_user_id                                   (lines 123-169)
\* found: what users.list would yield for the name: "found", "not_found", "error"
get_slack_user_id(cache, name, token, found) ==
    IF cache[name] # NotCached THEN
        [id |-> cache[name], cache |-> cache, requested |-> FALSE]
    ELSE IF ~token THEN
        [id |-> NoneId, cache |-> cache, requested |-> FALSE]
    ELSE IF found = "found" THEN
        [id |-> SlackUserId(name), cache |-> [cache EXCEPT ![name] = SlackUserId(name)],
         requested |-> TRUE]
    ELSE IF found = "not_found" THEN
        [id |-> NoneId, cache |-> [cache EXCEPT ![name] = NoneId], requested |-> TRUE]
    ELSE
        [id |-> NoneId, cache |-> cache, requested |-> TRUE]

\* the loop of _format_notification_message             (lines 247-253)
RECURSIVE FormatLoop(_, _, _, _, _, _)
FormatLoop(assignees, cache, token, lookup, mentions, looked_up) ==
    IF assignees = <<>>
    THEN [mentions |-> mentions, cache |-> cache, looked_up |-> looked_up]
    ELSE LET name == Head(assignees)
             r == get_slack_user_id(cache, name, token, lookup[name])
         IN  FormatLoop(Tail(assignees), r.cache, token, lookup,
                        Append(mentions, IF r.id # NoneId THEN Mention(r.id) ELSE PlainName(name)),
                        IF r.requested THEN looked_up \cup {name} ELSE looked_up)

\* _format_notification_message                         (lines 243-262)
format_notification_message(assignees, cache, token, lookup) ==
    LET r == FormatLoop(assignees, cache, token, lookup, <<>>, {})
    IN  [mentions |-> IF r.mentions # <<>> THEN r.mentions ELSE <<PlainName("reviewers")>>,
         cache |-> r.cache, looked_up |-> r.looked_up]

\* faulty variant: the answer of chat.postMessage is not looked at
send_slack_message_unchecked(token, post) ==
    IF ~token THEN [sent |-> FALSE, posts |-> 0]
    ELSE [sent |-> TRUE, posts |-> 1]

\* _send_slack_message                                  (lines 204-238)
\* post: what chat.postMessage would end in: "ok", or "fail" (a status other
\* than 200, an answer that is not ok, an exception)
send_slack_message(token, post) ==
    IF ~token THEN [sent |-> FALSE, posts |-> 0]
    ELSE [sent |-> post = "ok", posts |-> 1]

\* approval_status of a record: absent, or the three flags of get_approval_status
Approval(present, by_all, except_coverage, needs_coverage) ==
    [present |-> present, approved_by_all |-> by_all,
     approved_except_coverage |-> except_coverage, needs_coverage_check |-> needs_coverage]

Approvals ==
    {Approval(FALSE, FALSE, FALSE, FALSE),
     Approval(TRUE, TRUE, FALSE, FALSE),
     Approval(TRUE, TRUE, TRUE, TRUE),
     Approval(TRUE, FALSE, TRUE, TRUE),
     Approval(TRUE, FALSE, FALSE, FALSE)}

\* the mr_data handed to process_mr_for_notification: every approval state with
\* a passing pipeline, and the coverage-only state with a failed one
Records ==
    {rec \in [repo_name : Repos, iid : GateIids, has_project : BOOLEAN,
              approval : Approvals, pipeline_status : {"success", "failed"}] :
        rec.pipeline_status = "failed" => rec.approval = Approval(TRUE, FALSE, TRUE, TRUE)}

\* answers of GET merge_requests/{iid}: a 200 with its body, another status,
\* a request that raises
MrResponses ==
    [status : {"200"},
     assignees : {<<>>, <<"A">>, <<"A", "B">>},
     assignee : {"None", "A"},
     reviewers : {<<>>, <<"B">>}]
    \cup [status : {"other", "raise"}, assignees : {<<>>}, assignee : {"None"}, reviewers : {<<>>}]

\* answers of GET merge_requests/{iid}/approvals
ApprovalResponses ==
    [status : {"200"}, approved_by : {<<>>, <<"A">>, <<"A", "B">>}]
    \cup [status : {"other", "raise"}, approved_by : {<<>>}]

\* faulty variant: the record is taken to carry a project id
HasProjectIdAlways(rec) == TRUE

\* 'project_id' in mr_data                               (lines 288-290)
HasProjectId(rec) == rec.has_project

\* faulty variant: an MR without assignees is left unmarked
AfterFetchNoAssigneesUnmarked(outcome, assignees, pending) ==
    IF outcome = "raise" THEN [path |-> "exception", pc |-> "idle"]
    ELSE IF assignees = <<>> THEN [path |-> "no_assignees", pc |-> "idle"]
    ELSE IF pending = <<>> THEN [path |-> "all_approved", pc |-> "mark"]
    ELSE [path |-> "running", pc |-> "format"]

\* the decisions on the result of the assignee fetch: the except clause
\* (lines 337-339), no assignees (313-316), no pending reviewer (318-321),
\* else on to the message; the path of the evaluation and its next step
AfterFetch(outcome, assignees, pending) ==
    IF outcome = "raise" THEN [path |-> "exception", pc |-> "idle"]
    ELSE IF assignees = <<>> THEN [path |-> "no_assignees", pc |-> "mark"]
    ELSE IF pending = <<>> THEN [path |-> "all_approved", pc |-> "mark"]
    ELSE [path |-> "running", pc |-> "format"]

\* the log of an evaluation; check_day is the day _should_notify compared
\* against (line 89) while the evaluation runs, 0 otherwise
NoEval ==
    [file |-> <<>>, has_project |-> FALSE, approval |-> Approval(FALSE, FALSE, FALSE, FALSE),
     pipeline_status |-> "failed", marked_before |-> FALSE,
     after_failed_send |-> FALSE, assign |-> "none", fetch |-> "none",
     assignees |-> <<>>, approved |-> <<>>, pending |-> <<>>, looked_up |-> {},
     message |-> <<>>, post |-> "none", posts |-> 0, send_day |-> 0,
     marked |-> FALSE, mark_day |-> 0, check_day |-> 0, path |-> "none"]

\* process_mr_for_notification, lines 273-302: the marker check, the project
\* id check, the approved_by_all check
GateCheck ==
    /\ pc = "idle"
    /\ \E rec \in Records :
         LET file == DateFile(MrKey(rec.repo_name, rec.iid))
             start == [NoEval EXCEPT
                         !.file = file,
                         !.has_project = rec.has_project,
                         !.approval = rec.approval,
                         !.pipeline_status = rec.pipeline_status,
                         !.marked_before = (markers[file] = today),
                         !.check_day = today,
                         !.after_failed_send =
                             (ev.path = "send_failed" /\ ev.file = file /\ ev.send_day = today)]
         IN  IF ~should_notify(markers, file, today) THEN
                 /\ ev' = [start EXCEPT !.path = "already", !.check_day = 0]
                 /\ pc' = "idle"
             ELSE IF ~HasProjectId(rec) THEN
                 /\ ev' = [start EXCEPT !.path = "no_project", !.check_day = 0]
                 /\ pc' = "idle"
             ELSE IF ApprovedByAll(rec) THEN
                 /\ ev' = [start EXCEPT !.path = "approved_all"]
                 /\ pc' = "mark"
             ELSE
                 /\ ev' = [start EXCEPT !.path = "running"]
                 /\ pc' = "coverage"
    /\ act' = "check"
    /\ UNCHANGED <<today, markers, person_cache, slack_token, sentToday, retryVars, modelVars, resolveVars, workerVars, controllerVars>>

\* line 305: _check_and_add_coverage_reviewers; add_reviewers_to_mr succeeds,
\* returns False or raises, and the call's result is discarded
GateCoverage ==
    /\ pc = "coverage"
    /\ \E outcome \in {"ok", "fail", "raise"} :
         ev' = [ev EXCEPT !.assign = IF CoverageDue(ev) THEN "attempted" ELSE "none"]
    /\ pc' = "fetch"
    /\ act' = "coverage"
    /\ UNCHANGED <<today, markers, person_cache, slack_token, sentToday, retryVars, modelVars, resolveVars, workerVars, controllerVars>>

\* lines 308-322: the assignee fetch and the decisions on its result
GateFetch ==
    /\ pc = "fetch"
    /\ \E mr \in MrResponses, approvals \in ApprovalResponses :
         LET r == get_mr_assignees_and_approvals(mr, approvals)
             pending == PendingReviewers(r.assignees, r.approved)
             fetched == [ev EXCEPT !.fetch = r.outcome, !.assignees = r.assignees,
                                   !.approved = r.approved, !.pending = pending]
             next == AfterFetch(r.outcome, r.assignees, pending)
         IN  /\ ev' = [fetched EXCEPT !.path = next.path,
                                      !.check_day = IF next.pc = "idle" THEN 0 ELSE @]
             /\ pc' = next.pc
    /\ act' = "fetch"
    /\ UNCHANGED <<today, markers, person_cache, slack_token, sentToday, retryVars, modelVars, resolveVars, workerVars, controllerVars>>

\* line 326: _format_notification_message
GateFormat ==
    /\ pc = "format"
    /\ \E lookup \in [People -> {"found", "not_found", "error"}] :
         LET m == format_notification_message(ev.pending, person_cache, slack_token, lookup)
         IN  /\ ev' = [ev EXCEPT !.message = m.mentions, !.looked_up = m.looked_up]
             /\ person_cache' = m.cache
    /\ pc' = "send"
    /\ act' = "format"
    /\ UNCHANGED <<today, markers, slack_token, sentToday, retryVars, modelVars, resolveVars, workerVars, controllerVars>>

\* lines 329-335: _send_slack_message and the decision on its result
\* ev.post keeps what chat.postMessage has in store, ev.posts the requests made
GateSend ==
    /\ pc = "send"
    /\ \E post \in {"ok", "fail"} :
         LET r == send_slack_message(slack_token, post)
             posted == [ev EXCEPT !.post = post, !.posts = r.posts, !.send_day = today]
         IN  IF r.sent THEN
                 /\ ev' = [posted EXCEPT !.path = "sent"]
                 /\ sentToday' = [sentToday EXCEPT ![ev.file] = @ + 1]
                 /\ pc' = "mark"
             ELSE
                 /\ ev' = [posted EXCEPT !.path = "send_failed", !.check_day = 0]
                 /\ sentToday' = sentToday
                 /\ pc' = "idle"
    /\ act' = "send"
    /\ UNCHANGED <<today, markers, person_cache, slack_token, retryVars, modelVars, resolveVars, workerVars, controllerVars>>

\* lines 301, 316, 321, 331: _mark_notified, then return
GateMark ==
    /\ pc = "mark"
    /\ markers' = mark_notified(markers, ev.file, today)
    /\ ev' = [ev EXCEPT !.marked = TRUE, !.mark_day = today, !.check_day = 0]
    /\ pc' = "idle"
    /\ act' = "mark"
    /\ UNCHANGED <<today, person_cache, slack_token, sentToday, retryVars, modelVars, resolveVars, workerVars, controllerVars>>

\* midnight: date.today() moves on; it can do so while an evaluation is under way
AdvanceDay ==
    /\ today < MaxDay
    /\ today' = today + 1
    /\ sentToday' = [f \in Files |-> 0]
    /\ act' = "advance_day"
    /\ UNCHANGED <<markers, person_cache, slack_token, pc, ev, retryVars, modelVars, resolveVars, workerVars, controllerVars>>

(***************************************************************************)
(* Status resolvers, gitlab_api.py:43-178.  Every request of a resolver is *)
(* one make_gitlab_request call, and an answer is what that call returns:  *)
(* None (ok = FALSE) or the JSON body of the 200 (ok = TRUE).  A body that *)
(* is not wellformed is JSON of another shape than the resolver reads: the *)
(* subscript or the .get on it raises.                                     *)
(***************************************************************************)
\* Python's None where a string is expected
NoneValue == "None"

PipelineStatuses == {"success", "failed", "running"}
PipelineUrls == {"p1", "p2"}

\* a pipeline object; one that is not wellformed lacks 'status', 'id', 'web_url'
BadPipeline == [wellformed |-> FALSE, status |-> "", web_url |-> ""]

PipelineEntries ==
    [wellformed : {TRUE}, status : PipelineStatuses, web_url : PipelineUrls] \cup {BadPipeline}

\* the pipeline lists GET pipelines?sha= answers with: none, one, two entries
PipelineLists ==
    {<<>>} \cup {<<p>> : p \in PipelineEntries} \cup {<<p, q>> : p, q \in PipelineEntries}

\* answers to GET pipelines?sha=
PipelinesAnswers ==
    [ok : {TRUE}, list : PipelineLists] \cup {[ok |-> FALSE, list |-> <<>>]}

\* the mr_iid argument of get_pipeline_status: 0 stands for None and for 0,
\* which `if mr_iid:` both takes as no id
MrIids == {0, 42}

\* answers to GET merge_requests/{iid}, as far as get_pipeline_status reads
\* them: head_pipeline is not in the body, is null, or is a pipeline reference
HeadPipelineAnswers ==
    [ok : {TRUE}, head_pipeline : {"absent", "null", "present"}]
    \cup {[ok |-> FALSE, head_pipeline |-> "absent"]}

\* answers to GET pipelines/{pipeline_id}
PipelineAnswers ==
    [ok : {TRUE}, entry : PipelineEntries] \cup {[ok |-> FALSE, entry |-> BadPipeline]}

\* faulty variant: the last entry of the list is taken for the latest
LatestPipelineLast(list) == list[Len(list)]

\* latest_pipeline = pipelines_data[0]                  (line 70)
LatestPipeline(list) == list[1]

\* faulty variant: the MR detail is taken to have a head pipeline always
HasHeadPipelineAlways(mr_data) == TRUE

\* faulty variant: the head pipeline of the MR detail is never found
HasHeadPipelineNever(mr_data) == FALSE

\* 'head_pipeline' in mr_data and mr_data['head_pipeline']   (line 85)
HasHeadPipeline(mr_data) == mr_data.head_pipeline = "present"

\* what get_pipeline_status ends in: the status and URL it returns, or the
\* exception it raises, and the requests it has made
PipelineResult(status, url, requests) ==
    [status |-> status, url |-> url, raised |-> FALSE, requests |-> requests]

PipelineRaise(requests) ==
    [status |-> NoneValue, url |-> NoneValue, raised |-> TRUE, requests |-> requests]

\* the status and URL of a pipeline object: entry['status'], entry['web_url']
PipelineOf(entry, requests) ==
    IF entry.wellformed THEN PipelineResult(entry.status, entry.web_url, requests)
    ELSE PipelineRaise(requests)

\* get_pipeline_status                                  (lines 58-98)
get_pipeline_status(pipelines_data, mr_iid, mr_data, pipeline_data) ==
    IF pipelines_data.ok /\ pipelines_data.list # <<>> THEN
        PipelineOf(LatestPipeline(pipelines_data.list), <<"pipelines">>)
    ELSE IF mr_iid = 0 THEN
        PipelineResult(NoneValue, NoneValue, <<"pipelines">>)
    ELSE IF ~mr_data.ok THEN
        PipelineResult(NoneValue, NoneValue, <<"pipelines", "merge_request">>)
    ELSE IF ~HasHeadPipeline(mr_data) THEN
        PipelineResult(NoneValue, NoneValue, <<"pipelines", "merge_request">>)
    ELSE IF ~pipeline_data.ok THEN
        PipelineResult(NoneValue, NoneValue, <<"pipelines", "merge_request", "pipeline">>)
    ELSE
        PipelineOf(pipeline_data.entry, <<"pipelines", "merge_request", "pipeline">>)

\* names of approval rules: the sentinel, a name that differs from it in case
\* only, another rule, and '' for a rule without a name
RuleNames == {"Coverage-Check", "coverage-check", "Security", ""}

RuleLists == {<<>>} \cup {<<r>> : r \in RuleNames} \cup {<<r, s>> : r, s \in RuleNames}

\* answers to GET merge_requests/{iid}/approvals
ApprovalsAnswers ==
    [ok : {TRUE}, wellformed : {TRUE}, approval_rules_left : RuleLists, approved : BOOLEAN]
    \cup {[ok |-> TRUE, wellformed |-> FALSE, approval_rules_left |-> <<>>, approved |-> FALSE],
          [ok |-> FALSE, wellformed |-> FALSE, approval_rules_left |-> <<>>, approved |-> FALSE]}

\* faulty variant: the rule name is matched without regard to case
IsCoverageRuleAnyCase(rule_name) == rule_name \in {"Coverage-Check", "coverage-check"}

\* rule_name == 'Coverage-Check'                        (line 118)
IsCoverageRule(rule_name) == rule_name = "Coverage-Check"

\* the loop over approval_rules_left                    (lines 116-121)
RECURSIVE RuleLoop(_, _, _)
RuleLoop(rules, needs_coverage_check, needs_other_approval) ==
    IF rules = <<>>
    THEN [needs_coverage_check |-> needs_coverage_check,
          needs_other_approval |-> needs_other_approval]
    ELSE IF IsCoverageRule(Head(rules))
    THEN RuleLoop(Tail(rules), TRUE, needs_other_approval)
    ELSE RuleLoop(Tail(rules), needs_coverage_check, TRUE)

\* get_approval_status                                  (lines 104-136)
\* value: the dict returned; raised: the call ends in an exception instead
get_approval_status(approvals_data) ==
    IF ~approvals_data.ok THEN
        [value |-> Approval(TRUE, FALSE, FALSE, FALSE), raised |-> FALSE]
    ELSE IF ~approvals_data.wellformed THEN
        [value |-> Approval(TRUE, FALSE, FALSE, FALSE), raised |-> TRUE]
    ELSE
        LET flags == RuleLoop(approvals_data.approval_rules_left, FALSE, FALSE)
            approved_by_all == approvals_data.approved
            approved_except_coverage ==
                (~flags.needs_other_approval)
                /\ (~approved_by_all \/ flags.needs_coverage_check)
        IN  [value |-> Approval(TRUE, approved_by_all, approved_except_coverage,
                                flags.needs_coverage_check),
             raised |-> FALSE]

\* answers to GET merge_requests/{iid}?with_merge_status_recheck=true, as far
\* as get_merge_status reads them; NoneValue: the key is not in the body
MergeAnswers ==
    [ok : {TRUE}, wellformed : {TRUE},
     merge_status : {"can_be_merged", "cannot_be_merged", NoneValue},
     detailed_merge_status : {"mergeable", "conflict", NoneValue},
     has_conflicts : BOOLEAN]
    \cup [ok : BOOLEAN, wellformed : {FALSE}, merge_status : {NoneValue},
          detailed_merge_status : {NoneValue}, has_conflicts : {FALSE}]

\* faulty variant: the boolean conflict indicator is not looked at
HasConflictNoFlag(mr_data) ==
    \/ mr_data.detailed_merge_status = "conflict"
    \/ mr_data.merge_status = "cannot_be_merged"

\* the condition of lines 153-155
HasConflict(mr_data) ==
    \/ mr_data.detailed_merge_status = "conflict"
    \/ mr_data.merge_status = "cannot_be_merged"
    \/ mr_data.has_conflicts

\* get_merge_status                                     (lines 142-160)
get_merge_status(mr_data) ==
    IF ~mr_data.ok THEN [value |-> "", raised |-> FALSE]
    ELSE IF ~mr_data.wellformed THEN [value |-> "", raised |-> TRUE]
    ELSE IF HasConflict(mr_data) THEN [value |-> "CONFLICT", raised |-> FALSE]
    ELSE [value |-> "", raised |-> FALSE]

\* a discussion: without notes, or with a first note that is resolved, is not
\* resolved, or has no 'resolved' key
Discussions == {"no_notes", "resolved", "unresolved", "unmarked"}

DiscussionLists ==
    {<<>>} \cup {<<d>> : d \in Discussions} \cup {<<d, e>> : d, e \in Discussions}

\* answers to GET merge_requests/{iid}/discussions
DiscussionsAnswers ==
    [ok : {TRUE}, wellformed : {TRUE}, list : DiscussionLists]
    \cup [ok : BOOLEAN, wellformed : {FALSE}, list : {<<>>}]

\* discussion.get('notes') and not discussion.get('notes', [{}])[0].get('resolved', True)
IsUnresolved(discussion) == discussion = "unresolved"

\* get_unresolved_threads_count                         (lines 166-178)
get_unresolved_threads_count(discussions_data) ==
    IF ~discussions_data.ok THEN [value |-> 0, raised |-> FALSE]
    ELSE IF ~discussions_data.wellformed THEN [value |-> 0, raised |-> TRUE]
    ELSE [value |-> Len(SelectSeq(discussions_data.list, IsUnresolved)), raised |-> FALSE]

\* res: a resolver call, its arguments (what upstream answers to its requests)
\* and, once the call has returned, its result
NoResult == [raised |-> FALSE]

NoCall == [op |-> "none", args |-> <<>>, done |-> TRUE, result |-> NoResult]

Call(op, args) == [op |-> op, args |-> args, done |-> FALSE, result |-> NoResult]

PipelineCalls ==
    {Call("get_pipeline_status", args) :
        args \in [pipelines_data : PipelinesAnswers, mr_iid : MrIids,
                  mr_data : HeadPipelineAnswers, pipeline_data : PipelineAnswers]}

ApprovalCalls ==
    {Call("get_approval_status", args) : args \in [approvals_data : ApprovalsAnswers]}

MergeCalls ==
    {Call("get_merge_status", args) : args \in [mr_data : MergeAnswers]}

ThreadsCalls ==
    {Call("get_unresolved_threads_count", args) : args \in [discussions_data : DiscussionsAnswers]}

\* the call of get_pipeline_status runs and returns
ResolvePipeline ==
    /\ res.op = "get_pipeline_status"
    /\ ~res.done
    /\ res' = [res EXCEPT !.done = TRUE,
                          !.result = get_pipeline_status(res.args.pipelines_data, res.args.mr_iid,
                                                         res.args.mr_data, res.args.pipeline_data)]
    /\ act' = "get_pipeline_status"
    /\ UNCHANGED <<retryVars, modelVars, gateVars, workerVars, controllerVars>>

\* the call of get_approval_status runs and returns
ResolveApprovals ==
    /\ res.op = "get_approval_status"
    /\ ~res.done
    /\ res' = [res EXCEPT !.done = TRUE,
                          !.result = get_approval_status(res.args.approvals_data)]
    /\ act' = "get_approval_status"
    /\ UNCHANGED <<retryVars, modelVars, gateVars, workerVars, controllerVars>>

\* the call of get_merge_status runs and returns
ResolveMerge ==
    /\ res.op = "get_merge_status"
    /\ ~res.done
    /\ res' = [res EXCEPT !.done = TRUE, !.result = get_merge_status(res.args.mr_data)]
    /\ act' = "get_merge_status"
    /\ UNCHANGED <<retryVars, modelVars, gateVars, workerVars, controllerVars>>

\* the call of get_unresolved_threads_count runs and returns
ResolveThreads ==
    /\ res.op = "get_unresolved_threads_count"
    /\ ~res.done
    /\ res' = [res EXCEPT !.done = TRUE,
                          !.result = get_unresolved_threads_count(res.args.discussions_data)]
    /\ act' = "get_unresolved_threads_count"
    /\ UNCHANGED <<retryVars, modelVars, gateVars, workerVars, controllerVars>>

(***************************************************************************)
(* Fetch worker: fetch_mr_data_worker, mr_status_controller.py:567-619,    *)
(* and the foreground operations that feed its queue.                      *)
(***************************************************************************)
\* the repositories of the configuration that have a project_id, in order
Repositories == <<<<"a">>, <<"a", "b">>>>

\* an item of repo_queue: a repository's configuration, or the sentinel None
RepoRequest(name) == [kind |-> "repo", name |-> name]
Sentinel == [kind |-> "sentinel", name |-> <<>>]
NoCurrent == [kind |-> "none", name |-> <<>>]

\* the resolvers, in the order the worker calls them        (lines 578-601)
Resolvers ==
    <<"get_pipeline_status", "get_approval_status", "get_merge_status",
      "get_unresolved_threads_count">>

\* answers to GET merge_requests?state=opened: the request fails, the body is
\* not a list of MR objects, no open MR, the open MRs 2 and 1 in that order
ListAnswers ==
    {[ok |-> FALSE, wellformed |-> TRUE, list |-> <<>>],
     [ok |-> TRUE, wellformed |-> FALSE, list |-> <<>>],
     [ok |-> TRUE, wellformed |-> TRUE, list |-> <<>>],
     [ok |-> TRUE, wellformed |-> TRUE, list |-> <<2, 1>>]}

\* faulty variant: the result of the request is returned as it is, None included
get_merge_requests_raw(answer) ==
    [wellformed |-> answer.ok /\ answer.wellformed, list |-> answer.list]

\* get_merge_requests: result if result is not None else []   (gitlab_api.py:43-52)
get_merge_requests(answer) ==
    IF answer.ok THEN [wellformed |-> answer.wellformed, list |-> answer.list]
    ELSE [wellformed |-> TRUE, list |-> <<>>]

\* What upstream does to the requests made for the MRs of one batch: it
\* answers all of them well, or the requests of one resolver for the MR at
\* one position fail ("failed"), or are answered with a body of another
\* shape than the resolver reads ("bad").
NoFault == [pos |-> 0, resolver |-> "none", kind |-> "none"]

Faults ==
    {NoFault}
    \cup [pos : {1, 2},
          resolver : {Resolvers[i] : i \in DOMAIN Resolvers},
          kind : {"failed", "bad"}]

Hits(fault, pos, resolver) == fault.pos = pos /\ fault.resolver = resolver

\* the answers upstream gives for the MR at position pos
AnswersFor(fault, pos) ==
    LET kind(resolver) == IF Hits(fault, pos, resolver) THEN fault.kind ELSE "none"
    IN  [pipelines_data |->
            CASE kind("get_pipeline_status") = "failed" -> [ok |-> FALSE, list |-> <<>>]
              [] kind("get_pipeline_status") = "bad" -> [ok |-> TRUE, list |-> <<BadPipeline>>]
              [] OTHER -> [ok |-> TRUE,
                           list |-> <<[wellformed |-> TRUE, status |-> "success",
                                       web_url |-> "p1"]>>],
         mr_data |-> [ok |-> FALSE, head_pipeline |-> "absent"],
         pipeline_data |-> [ok |-> FALSE, entry |-> BadPipeline],
         approvals_data |->
            [ok |-> kind("get_approval_status") # "failed",
             wellformed |-> kind("get_approval_status") = "none",
             approval_rules_left |-> IF kind("get_approval_status") = "none"
                                     THEN <<"Coverage-Check">> ELSE <<>>,
             approved |-> FALSE],
         merge_data |->
            [ok |-> kind("get_merge_status") # "failed",
             wellformed |-> kind("get_merge_status") = "none",
             merge_status |-> NoneValue,
             detailed_merge_status |-> NoneValue,
             has_conflicts |-> kind("get_merge_status") = "none"],
         discussions_data |->
            [ok |-> kind("get_unresolved_threads_count") # "failed",
             wellformed |-> kind("get_unresolved_threads_count") = "none",
             list |-> IF kind("get_unresolved_threads_count") = "none"
                      THEN <<"unresolved">> ELSE <<>>]]

\* the body of the loop over mrs, lines 578-612: the four resolver calls in
\* order and the record appended; the first call that raises ends the body
\*   raised: the resolver whose call raised, or "none"
\*   ran:    the resolvers that were called
StatusRecord(repo_name, iid, answers) ==
    LET p == get_pipeline_status(answers.pipelines_data, iid, answers.mr_data,
                                 answers.pipeline_data)
        a == get_approval_status(answers.approvals_data)
        m == get_merge_status(answers.merge_data)
        t == get_unresolved_threads_count(answers.discussions_data)
        raised == IF p.raised THEN Resolvers[1]
                  ELSE IF a.raised THEN Resolvers[2]
                  ELSE IF m.raised THEN Resolvers[3]
                  ELSE IF t.raised THEN Resolvers[4]
                  ELSE "none"
        calls == IF p.raised THEN 1 ELSE IF a.raised THEN 2 ELSE IF m.raised THEN 3 ELSE 4
    IN  [raised |-> raised,
         ran |-> {Resolvers[i] : i \in 1..calls},
         record |-> [repo_name |-> repo_name, iid |-> iid,
                     pipeline_status |-> p.status, pipeline_url |-> p.url,
                     approval_status |-> a.value, merge_status |-> m.value,
                     unresolved_threads |-> t.value]]

\* for mr in mrs: ... repo_mrs.append(...)                 (lines 576-612)
RECURSIVE BuildBatch(_, _, _, _, _, _)
BuildBatch(repo_name, mrs, fault, pos, repo_mrs, ran) ==
    IF pos > Len(mrs)
    THEN [raised |-> "none", repo_mrs |-> repo_mrs, ran |-> ran]
    ELSE LET s == StatusRecord(repo_name, mrs[pos], AnswersFor(fault, pos))
         IN  IF s.raised # "none"
             THEN [raised |-> s.raised, repo_mrs |-> repo_mrs, ran |-> Append(ran, s.ran)]
             ELSE BuildBatch(repo_name, mrs, fault, pos + 1,
                             Append(repo_mrs, s.record), Append(ran, s.ran))

\* the messages of result_queue
RepoComplete(repo_name, repo_mrs) ==
    [type |-> "repo_complete", name |-> repo_name, repo_mrs |-> repo_mrs, text |-> ""]

ErrorMessage(text) ==
    [type |-> "error", name |-> <<>>, repo_mrs |-> <<>>, text |-> text]

\* faulty variant: the exception handler puts nothing on the result queue
HandleExceptionSilent(text) == <<>>

\* except Exception as e: result_queue.put(('error', str(e), None))   (lines 618-619)
\* the messages the handler puts
HandleException(text) == <<ErrorMessage(text)>>

\* faulty variant: an empty batch is not reported
EmitBatchNonEmpty(repo_name, repo_mrs) ==
    IF repo_mrs = <<>> THEN <<>> ELSE <<RepoComplete(repo_name, repo_mrs)>>

\* result_queue.put(('repo_complete', repo_config['name'], repo_mrs))   (line 614)
\* the messages the statement puts
EmitBatch(repo_name, repo_mrs) == <<RepoComplete(repo_name, repo_mrs)>>

\* lines 574-619 for one dequeued repository: the messages put on result_queue
ProcessRepo(repo_name, answer, fault) ==
    LET mrs == get_merge_requests(answer)
    IN  IF ~mrs.wellformed
        THEN [puts |-> HandleException("get_merge_requests"), ran |-> <<>>]
        ELSE LET b == BuildBatch(repo_name, mrs.list, fault, 1, <<>>, <<>>)
             IN  IF b.raised # "none"
                 THEN [puts |-> HandleException(b.raised), ran |-> b.ran]
                 ELSE [puts |-> EmitBatch(repo_name, b.repo_mrs), ran |-> b.ran]

NoIteration ==
    [name |-> <<>>, answer |-> [ok |-> FALSE, wellformed |-> TRUE, list |-> <<>>],
     fault |-> NoFault, ran |-> <<>>, puts |-> 0]

\* faulty variant: a request for every configured repository
RefreshRequestsAll(with_project_id) ==
    [i \in DOMAIN Repositories |-> RepoRequest(Repositories[i])]

\* the requests queue_refresh puts: one for every configured repository with
\* a project_id, in the order of the configuration         (lines 241-244)
RefreshRequests(with_project_id) ==
    LET names == SelectSeq(Repositories, LAMBDA name : name \in with_project_id)
    IN  [i \in DOMAIN names |-> RepoRequest(names[i])]

\* schedule_refresh, the handler of the refresh timer: queue_refresh
\* (lines 241-250); the timers run once initialize_data has returned;
\* refreshes counts the calls
QueueRefresh ==
    /\ cpc # "constructed"
    /\ refreshes < MaxRefreshes
    /\ refreshes' = refreshes + 1
    /\ repo_queue' = repo_queue \o RefreshRequests(resolved)
    /\ act' = "queue_refresh"
    /\ UNCHANGED <<result_queue, wpc, current, wk, cleaning,
                   retryVars, modelVars, gateVars, resolveVars, controllerVars>>

\* the worker is a live process
WorkerAlive == wpc \in {"get", "work"}

\* cleanup, lines 557-559: with a live worker, put the sentinel and wait in join
CleanupPut ==
    /\ ~cleaning
    /\ WorkerAlive
    /\ repo_queue' = Append(repo_queue, Sentinel)
    /\ cleaning' = TRUE
    /\ act' = "cleanup_put"
    /\ UNCHANGED <<result_queue, wpc, current, wk, refreshes,
                   retryVars, modelVars, gateVars, resolveVars, controllerVars>>

\* faulty variant: a worker that outlives the join is left running
TerminateNever(state) == state

\* if self.worker_process.is_alive(): self.worker_process.terminate()
\* (lines 560-561): where the worker stands after it
TerminateIfAlive(state) == IF state \in {"get", "work"} THEN "terminated" ELSE state

\* cleanup, lines 559-561: join returns, because the worker has exited or
\* because the timeout has passed; a worker still alive is terminated
CleanupJoined ==
    /\ cleaning
    /\ cleaning' = FALSE
    /\ wpc' = TerminateIfAlive(wpc)
    /\ act' = "cleanup_joined"
    /\ UNCHANGED <<repo_queue, result_queue, current, wk, refreshes,
                   retryVars, modelVars, gateVars, resolveVars, controllerVars>>

\* cleanup, line 557, with no worker or a worker that is not alive: the
\* condition is false and the body is skipped
CleanupNotAlive ==
    /\ ~cleaning
    /\ ~WorkerAlive
    /\ act' = "cleanup_not_alive"
    /\ UNCHANGED <<workerVars, retryVars, modelVars, gateVars, resolveVars,
                   controllerVars>>

\* faulty variant: the item put last is taken first
GetLast(queue) ==
    [item |-> queue[Len(queue)], rest |-> SubSeq(queue, 1, Len(queue) - 1)]

\* repo_queue.get on a queue that holds an item: the item taken and the
\* items left                                              (line 570)
Get(queue) == [item |-> Head(queue), rest |-> Tail(queue)]

\* faulty variant: the sentinel is not recognised
IsSentinelNever(repo_config) == FALSE

\* repo_config is None                                    (line 571)
IsSentinel(repo_config) == repo_config.kind = "sentinel"

\* faulty variant: an empty queue ends the loop
AfterTimeoutBreak == "exited"

\* except queue.Empty: continue                           (lines 616-617)
\* where the worker stands next
AfterTimeout == "get"

\* repo_queue.get(timeout=1) on an empty queue            (lines 570, 616-617)
WorkerTimeout ==
    /\ wpc = "get"
    /\ repo_queue = <<>>
    /\ wpc' = AfterTimeout
    /\ act' = "dequeue_timeout"
    /\ UNCHANGED <<repo_queue, result_queue, current, wk, refreshes, cleaning,
                   retryVars, modelVars, gateVars, resolveVars, controllerVars>>

\* repo_queue.get(timeout=1) yields an item; None ends the loop   (lines 570-572)
WorkerDequeue ==
    /\ wpc = "get"
    /\ repo_queue # <<>>
    /\ repo_queue' = Get(repo_queue).rest
    /\ IF IsSentinel(Get(repo_queue).item)
       THEN wpc' = "exited" /\ current' = Sentinel
       ELSE wpc' = "work" /\ current' = Get(repo_queue).item
    /\ act' = "dequeue"
    /\ UNCHANGED <<result_queue, wk, refreshes, cleaning,
                   retryVars, modelVars, gateVars, resolveVars, controllerVars>>

\* lines 574-619 for the dequeued repository, then back to the top of the loop
WorkerFetch ==
    /\ wpc = "work"
    /\ \E answer \in ListAnswers :
         \E fault \in {f \in Faults : f.pos <= Len(get_merge_requests(answer).list)} :
            LET r == ProcessRepo(current.name, answer, fault)
            IN  /\ result_queue' = result_queue \o r.puts
                /\ wk' = [name |-> current.name, answer |-> answer, fault |-> fault,
                          ran |-> r.ran, puts |-> Len(r.puts)]
    /\ wpc' = "get"
    /\ current' = NoCurrent
    /\ act' = "fetch"
    /\ UNCHANGED <<repo_queue, refreshes, cleaning,
                   retryVars, modelVars, gateVars, resolveVars, controllerVars>>

(***************************************************************************)
(* Foreground controller: MRStatusController,                              *)
(* mr_status_controller.py:41-396.  The controller is taken to be built    *)
(* with a logger argument (__init__ requires one).  The evaluations of the *)
(* notification gate that check_for_notifications starts are the gate's    *)
(* actions above; here they count as an operation the foreground has run.  *)
(* The MR objects of a batch are taken to have the keys update_repo_data   *)
(* reads ('iid', 'title', 'web_url', 'source_branch').                     *)
(***************************************************************************)
\* a record of a batch, as the worker builds it            (lines 603-612)
BatchRecord(repo_name, iid, pipeline_status, merge_status) ==
    [repo_name |-> repo_name, iid |-> iid,
     pipeline_status |-> pipeline_status, pipeline_url |-> NoneValue,
     approval_status |-> Approval(TRUE, FALSE, FALSE, FALSE),
     merge_status |-> merge_status, unresolved_threads |-> 0]

\* faulty variant: the conflict state is not looked at
EligibleIgnoresConflict(mr_data) == mr_data.pipeline_status = "success"

\* the two tests of check_for_notifications               (lines 383-387)
Eligible(mr_data) ==
    /\ mr_data.pipeline_status = "success"
    /\ mr_data.merge_status # "CONFLICT"

\* check_for_notifications                                (lines 361-396)
\* the records handed to process_mr_for_notification, in order
check_for_notifications(has_notifier, has_project_id, repo_mrs) ==
    IF ~has_notifier THEN <<>>
    ELSE IF ~has_project_id THEN <<>>
    ELSE SelectSeq(repo_mrs, Eligible)

\* new_items of update_repo_data                          (lines 278-304)
NewItems(repo_name, repo_mrs) ==
    [i \in DOMAIN repo_mrs |-> NewItem(repo_name, repo_mrs[i].iid)]

\* faulty variant: the first batch ends the loading state
LoadingDoneAnyBatch(loaded, expected, is_loading) == is_loading

\* self._repos_loaded >= expected_repos and self._loading  (line 309)
LoadingDone(loaded, expected, is_loading) == expected \subseteq loaded /\ is_loading

\* the names of the configured repositories
RepositoryNames == {Repositories[i] : i \in DOMAIN Repositories}

\* initialize_data                                         (lines 187-225)
\*   configured: the configuration has repositories
\*   token:      get_gitlab_token yields a token
\*   user:       get_current_user yields a user
\*   ids:        the repositories whose URL parses and whose get_project_id
\*               yields an id
\* get_current_user and get_project_id call make_gitlab_request (lines 170, 178)
InitializeData ==
    /\ cpc = "constructed"
    /\ \E configured \in BOOLEAN, token \in BOOLEAN, user \in BOOLEAN,
          ids \in SUBSET RepositoryNames :
         IF ~configured \/ ~token \/ ~user THEN
             /\ ids = {}
             /\ loading' = FALSE
             /\ emitted' = Append(emitted, FALSE)
             /\ cpc' = "stopped"
             /\ fg' = IF configured /\ token THEN fg \cup {"get_current_user"} ELSE fg
             /\ UNCHANGED <<resolved, repo_queue, wpc>>
         ELSE
             /\ resolved' = ids
             /\ fg' = fg \cup {"get_current_user", "get_project_id"}
             /\ cpc' = "running"
             /\ wpc' = "get"
             /\ repo_queue' = repo_queue \o RefreshRequests(ids)
             /\ UNCHANGED <<loading, emitted>>
    /\ act' = "initialize_data"
    /\ UNCHANGED <<repos_loaded, produced, notifier, result_queue, current, wk, refreshes,
                   cleaning, retryVars, modelVars, gateVars, resolveVars>>

\* the messages an iteration of the worker may put for a repository: an
\* error, an empty batch, a batch with a record that passes the tests of
\* check_for_notifications, a batch with one that does not
ServedMessages(repo_name) ==
    {ErrorMessage("get_merge_requests"),
     RepoComplete(repo_name, <<>>),
     RepoComplete(repo_name, <<BatchRecord(repo_name, 2, "success", "")>>),
     RepoComplete(repo_name, <<BatchRecord(repo_name, 10, "failed", "")>>)}

\* fetch_mr_data_worker as the foreground sees it: an iteration takes the
\* request at the head of repo_queue and puts one message   (lines 567-619)
WorkerServes ==
    /\ wpc = "get"
    /\ repo_queue # <<>>
    /\ ~IsSentinel(Head(repo_queue))
    /\ \E m \in ServedMessages(Head(repo_queue).name) :
          result_queue' = Append(result_queue, m)
    /\ repo_queue' = Tail(repo_queue)
    /\ act' = "worker_serves"
    /\ UNCHANGED <<wpc, current, wk, refreshes, cleaning, controllerVars,
                   retryVars, modelVars, gateVars, resolveVars>>

\* faulty variant: every message is handled as a batch
IsBatchAlways(m) == TRUE

\* if message_type == 'repo_complete'                      (line 261)
IsBatch(m) == m.type = "repo_complete"

\* check_results, one turn of its loop: get_nowait yields a message
\* (lines 255-270), and for a batch update_repo_data        (lines 275-318)
CheckResults ==
    /\ cpc # "constructed"
    /\ result_queue # <<>>
    /\ result_queue' = Tail(result_queue)
    /\ LET m == Head(result_queue)
       IN  IF IsBatch(m) THEN
               LET loaded == repos_loaded \cup {m.name}
                   passed == check_for_notifications(notifier, m.name \in resolved, m.repo_mrs)
               IN  /\ repos_loaded' = loaded
                   /\ produced' = produced \cup {m.name}
                   /\ fg' = IF passed # <<>> THEN fg \cup {"process_mr_for_notification"} ELSE fg
                   /\ data' = update_repo_data(data, m.name, NewItems(m.name, m.repo_mrs))
                   /\ target' = m.name
                   /\ IF LoadingDone(loaded, resolved, loading)
                      THEN loading' = FALSE /\ emitted' = Append(emitted, FALSE)
                      ELSE UNCHANGED <<loading, emitted>>
           ELSE UNCHANGED <<repos_loaded, produced, fg, data, target, loading, emitted>>
    /\ act' = "check_results"
    /\ UNCHANGED <<cpc, resolved, notifier, repo_queue, wpc, current, wk, refreshes, cleaning,
                   retryVars, gateVars, resolveVars>>

(***************************************************************************)
(* Calls of the functions that are checked on their own: the MR list call, *)
(* the display title and the notification filter of the controller, the    *)
(* sort and the update of the list.                                        *)
(***************************************************************************)
ListCalls == {Call("get_merge_requests", [answer |-> a]) : a \in ListAnswers}

\* the call of get_merge_requests runs and returns
ResolveList ==
    /\ res.op = "get_merge_requests"
    /\ ~res.done
    /\ res' = [res EXCEPT !.done = TRUE,
                          !.result = [value |-> get_merge_requests(res.args.answer),
                                      raised |-> FALSE]]
    /\ act' = "get_merge_requests"
    /\ UNCHANGED <<retryVars, modelVars, gateVars, workerVars, controllerVars>>

\* the length from which a title is cut       (mr_status_controller.py:289)
TitleLimit == 50

Ellipsis == <<".", ".", ".">>

\* the character at position i of the title that starts at offset k
TitleChars == <<"a", "b", "-">>
TitleChar(i, k) == TitleChars[((i + k) % 3) + 1]

\* MR titles of every length up to MaxTitleLen
Titles == {[i \in 1..n |-> TitleChar(i, k)] : n \in 0..MaxTitleLen, k \in 0..1}

\* the slice text[:n]: the first n characters, all of a shorter text
Slice(text, n) == SubSeq(text, 1, IF Len(text) < n THEN Len(text) ELSE n)

\* faulty variant: the conditional expression binds to '...' only
DisplayTitleMisparsed(title) ==
    Slice(title, TitleLimit) \o (IF Len(title) > TitleLimit THEN Ellipsis ELSE title)

\* title = mr['title'][:50] + '...' if len(mr['title']) > 50 else mr['title']
DisplayTitle(title) ==
    IF Len(title) > TitleLimit THEN Slice(title, TitleLimit) \o Ellipsis ELSE title

TitleCalls == {Call("display_title", [title |-> t]) : t \in Titles}

\* line 289 of update_repo_data runs for one MR
BuildTitle ==
    /\ res.op = "display_title"
    /\ ~res.done
    /\ res' = [res EXCEPT !.done = TRUE,
                          !.result = [value |-> DisplayTitle(res.args.title), raised |-> FALSE]]
    /\ act' = "display_title"
    /\ UNCHANGED <<retryVars, modelVars, gateVars, workerVars, controllerVars>>

\* MR labels as _sort_data may meet them: of a number, none, a bare '!', text
\* after the '!' that is not a number
SortLabels == {MrLabel(2), MrLabel(10), NoLabel, <<"!">>, <<"!", "a">>}

SortItems == [repo : Repos, mr : SortLabels, key : {<<>>}]

\* the lists _sort_data is called on: none, one, two entries
SortLists == {<<>>} \cup {<<x>> : x \in SortItems} \cup {<<x, y>> : x, y \in SortItems}

SortCalls == {Call("_sort_data", [items |-> l]) : l \in SortLists}

\* the call of _sort_data runs; value is the list it leaves behind
SortData ==
    /\ res.op = "_sort_data"
    /\ ~res.done
    /\ res' = [res EXCEPT !.done = TRUE,
                          !.result = [value |-> sort_data(res.args.items),
                                      raised |-> SortRaises(res.args.items)]]
    /\ act' = "_sort_data"
    /\ UNCHANGED <<retryVars, modelVars, gateVars, workerVars, controllerVars>>

\* batches of none, one, two records with every pipeline outcome and
\* conflict state; the record at position i is that of MR i
BatchesOf(repo_name) ==
    LET Rec(iid) == {BatchRecord(repo_name, iid, p, m) :
                        p \in {"success", "failed", NoneValue}, m \in {"", "CONFLICT"}}
    IN  {<<>>} \cup {<<x>> : x \in Rec(1)} \cup {<<x, y>> : x \in Rec(1), y \in Rec(2)}

NotificationCalls ==
    {Call("check_for_notifications",
          [has_notifier |-> n, has_project_id |-> p, repo_mrs |-> b]) :
        n \in BOOLEAN, p \in BOOLEAN, b \in BatchesOf(<<"a">>)}

\* the call of check_for_notifications runs; value is the sequence of records
\* it has handed to the gate
CheckForNotifications ==
    /\ res.op = "check_for_notifications"
    /\ ~res.done
    /\ res' = [res EXCEPT !.done = TRUE,
                          !.result = [value |-> check_for_notifications(res.args.has_notifier,
                                                                        res.args.has_project_id,
                                                                        res.args.repo_mrs),
                                      raised |-> FALSE]]
    /\ act' = "check_for_notifications"
    /\ UNCHANGED <<retryVars, modelVars, gateVars, workerVars, controllerVars>>

\* new_items lists of none, one, two entries for a repository
ShortLists(repo_name) ==
    LET Items == {NewItem(repo_name, iid) : iid \in Iids}
    IN  {<<>>} \cup {<<x>> : x \in Items} \cup {<<x, y>> : x, y \in Items}

\* lists MRModel can hold: what updates of the two repositories leave behind
HeldLists ==
    {update_repo_data(update_repo_data(<<>>, <<"a">>, la), <<"a", "b">>, lb) :
        la \in ShortLists(<<"a">>), lb \in ShortLists(<<"a", "b">>)}

UpdateCalls ==
    UNION {{Call("update_repo_data", [items |-> h, repo_name |-> r, new_items |-> l]) :
               h \in HeldLists, l \in ShortLists(r)} : r \in Repos}

\* the call of MRModel.update_repo_data runs; value is the list it leaves behind
UpdateRepoDataCall ==
    /\ res.op = "update_repo_data"
    /\ ~res.done
    /\ res' = [res EXCEPT !.done = TRUE,
                          !.result = [value |-> update_repo_data(res.args.items, res.args.repo_name,
                                                                 res.args.new_items),
                                      raised |-> FALSE]]
    /\ act' = "update_repo_data"
    /\ UNCHANGED <<retryVars, modelVars, gateVars, workerVars, controllerVars>>

(***************************************************************************)
(* Specifications.  Init is the state in which initialize_data has started *)
(* the worker, with a project id for every repository; InitController is   *)
(* the state after MRStatusController.__init__.                            *)
(***************************************************************************)
Init ==
    /\ req = NoRequest
    /\ data = <<>>
    /\ target = <<>>
    /\ today = 1
    /\ markers = [f \in Files |-> NoFile]
    /\ person_cache = [p \in People |-> NotCached]
    /\ slack_token \in BOOLEAN
    /\ sentToday = [f \in Files |-> 0]
    /\ pc = "idle"
    /\ ev = NoEval
    /\ res = NoCall
    /\ repo_queue = <<>>
    /\ result_queue = <<>>
    /\ wpc = "get"
    /\ current = NoCurrent
    /\ wk = NoIteration
    /\ refreshes = 0
    /\ cleaning = FALSE
    /\ cpc = "running"
    /\ loading = TRUE
    /\ repos_loaded = {}
    /\ produced = {}
    /\ emitted = <<TRUE>>
    /\ resolved = RepositoryNames
    /\ notifier = TRUE
    /\ fg = {"get_current_user", "get_project_id"}
    /\ act = "init"

RetryNext == CallRequest

ModelNext == UpdateRepoData \/ ClearRepo \/ ClearAll

GateNext ==
    \/ GateCheck
    \/ GateCoverage
    \/ GateFetch
    \/ GateFormat
    \/ GateSend
    \/ GateMark
    \/ AdvanceDay

ResolveNext ==
    \/ ResolvePipeline
    \/ ResolveApprovals
    \/ ResolveMerge
    \/ ResolveThreads
    \/ ResolveList
    \/ BuildTitle
    \/ SortData
    \/ UpdateRepoDataCall
    \/ CheckForNotifications

ControllerNext ==
    \/ InitializeData
    \/ QueueRefresh
    \/ WorkerServes
    \/ CheckResults
    \/ CleanupNotAlive

WorkerNext ==
    \/ QueueRefresh
    \/ CleanupPut
    \/ CleanupJoined
    \/ CleanupNotAlive
    \/ WorkerTimeout
    \/ WorkerDequeue
    \/ WorkerFetch

\* the retry client, the list, the resolvers and the worker do not read the
\* notifier's state
InitWithToken == Init /\ slack_token

SpecRetry == InitWithToken /\ [][RetryNext]_vars

SpecModel == InitWithToken /\ [][ModelNext]_vars

SpecGate == Init /\ [][GateNext]_vars

\* a call about to run, on any answers of upstream and any arguments
InitResolve ==
    /\ res \in PipelineCalls \cup ApprovalCalls \cup MergeCalls \cup ThreadsCalls
                \cup ListCalls \cup TitleCalls \cup SortCalls \cup UpdateCalls
                \cup NotificationCalls
    /\ req = NoRequest
    /\ data = <<>>
    /\ target = <<>>
    /\ today = 1
    /\ markers = [f \in Files |-> NoFile]
    /\ person_cache = [p \in People |-> NotCached]
    /\ slack_token = TRUE
    /\ sentToday = [f \in Files |-> 0]
    /\ pc = "idle"
    /\ ev = NoEval
    /\ repo_queue = <<>>
    /\ result_queue = <<>>
    /\ wpc = "get"
    /\ current = NoCurrent
    /\ wk = NoIteration
    /\ refreshes = 0
    /\ cleaning = FALSE
    /\ cpc = "running"
    /\ loading = TRUE
    /\ repos_loaded = {}
    /\ produced = {}
    /\ emitted = <<TRUE>>
    /\ resolved = RepositoryNames
    /\ notifier = TRUE
    /\ fg = {"get_current_user", "get_project_id"}
    /\ act = "init"

SpecResolve == InitResolve /\ [][ResolveNext]_vars

SpecWorker == InitWithToken /\ [][WorkerNext]_vars

\* the controller after __init__ (lines 41-58): loading, loadingChanged(True)
\* emitted, no worker process; MRNotifier(self.logger) has built the notifier
\* or has raised (Path() of an object that is not a path raises TypeError,
\* mr_notifier.py:25, and _initialize_notifier goes on without a notifier)
InitController ==
    /\ cpc = "constructed"
    /\ loading = TRUE
    /\ repos_loaded = {}
    /\ produced = {}
    /\ emitted = <<TRUE>>
    /\ resolved = {}
    /\ notifier \in BOOLEAN
    /\ fg = {}
    /\ wpc = "none"
    /\ req = NoRequest
    /\ data = <<>>
    /\ target = <<>>
    /\ today = 1
    /\ markers = [f \in Files |-> NoFile]
    /\ person_cache = [p \in People |-> NotCached]
    /\ slack_token = TRUE
    /\ sentToday = [f \in Files |-> 0]
    /\ pc = "idle"
    /\ ev = NoEval
    /\ res = NoCall
    /\ repo_queue = <<>>
    /\ result_queue = <<>>
    /\ current = NoCurrent
    /\ wk = NoIteration
    /\ refreshes = 0
    /\ cleaning = FALSE
    /\ act = "init"

SpecController == InitController /\ [][ControllerNext]_vars

Next == RetryNext \/ ModelNext \/ GateNext \/ ResolveNext \/ WorkerNext \/ ControllerNext

Spec == Init /\ [][Next]_vars

(***************************************************************************)
(* Properties of the HTTP retry client (checked under SpecRetry).          *)
(***************************************************************************)
\* the positions of the request events in the trace of the last call
RequestPositions == {i \in DOMAIN req.events : req.events[i].kind = "request"}
RequestsMade == Cardinality(RequestPositions)
\* the outcomes after which the loop goes on to the next attempt
Transient == {"timeout", "429", "error"}
\* attempt a (0-based) is made: every earlier attempt ended in a transient outcome
AttemptMade(a) == a < req.max_retries /\ \A b \in 0..(a - 1) : req.outs[b + 1] \in Transient
\* the position of the request event of attempt a
PositionOf(a) == CHOOSE i \in RequestPositions : req.events[i].attempt = a

\* C7: make_gitlab_request ends after at most max_retries requests and never
\* raises; a 200 on an attempt is returned at once, with no request after it;
\* when every attempt ends in a timeout, a 429 or another transport error, the
\* call returns None after exactly max_retries requests.
C7_BoundedAttempts ==
    /\ ~req.raised
    /\ req.result \in {"json", "none"}
    /\ RequestsMade <= req.max_retries
    /\ \A i \in RequestPositions :
          req.events[i].attempt = Cardinality({j \in RequestPositions : j < i})
    /\ \A a \in 0..(req.max_retries - 1) :
          (AttemptMade(a) /\ req.outs[a + 1] = "200") =>
              /\ req.result = "json"
              /\ RequestsMade = a + 1
              /\ req.events[Len(req.events)] = Request(a)
    /\ req.result = "json" => req.outs[RequestsMade] = "200"
    /\ (\A a \in 1..req.max_retries : req.outs[a] \in Transient) =>
          req.result = "none" /\ RequestsMade = req.max_retries

\* a call with the default max_retries whose three attempts all fail
C7_Witness ==
    /\ act = "make_gitlab_request"
    /\ req.max_retries = DefaultMaxRetries
    /\ req.outs = <<"timeout", "429", "error">>
    /\ req.result = "none"
    /\ RequestsMade = DefaultMaxRetries

\* C8: a status other than 200 and 429 ends the call on that attempt: None is
\* returned, the request of that attempt is the last event of the call, so no
\* sleep and no further request follow, whatever attempts remain.
C8_OtherStatusFailsAtOnce ==
    \A a \in 0..(req.max_retries - 1) :
        (AttemptMade(a) /\ req.outs[a + 1] = "other_status") =>
            /\ req.result = "none"
            /\ RequestsMade = a + 1
            /\ Len(req.events) = PositionOf(a)
            /\ req.events[Len(req.events)] = Request(a)

\* another status on the first of three attempts
C8_Witness ==
    /\ act = "make_gitlab_request"
    /\ req.max_retries = DefaultMaxRetries
    /\ req.outs[1] = "other_status"
    /\ RequestsMade = 1
    /\ req.result = "none"

\* C9: a 429 at attempt a is followed by a sleep of base_delay * 2^a + 5, on
\* every attempt including the last; the next request follows the sleep when
\* attempts remain, and after the last attempt the call ends with None.
C9_RateLimitSleep ==
    \A a \in 0..(req.max_retries - 1) :
        (AttemptMade(a) /\ req.outs[a + 1] = "429") =>
            LET i == PositionOf(a)
            IN  /\ i + 1 \in DOMAIN req.events
                /\ req.events[i + 1] = Sleep(a, req.base_delay * (2 ^ a) + 5)
                /\ IF a < req.max_retries - 1
                   THEN i + 2 \in DOMAIN req.events /\ req.events[i + 2] = Request(a + 1)
                   ELSE Len(req.events) = i + 1 /\ req.result = "none"

\* a 429 on the last of three attempts, with the default base delay: 1 * 4 + 5
C9_Witness ==
    /\ act = "make_gitlab_request"
    /\ req.max_retries = DefaultMaxRetries
    /\ req.base_delay = DefaultBaseDelay
    /\ req.outs = <<"429", "429", "429">>
    /\ req.events[Len(req.events)] = Sleep(2, 9)

\* C10: a timeout at attempt a is followed by a sleep of base_delay * 2^a and
\* then the next request when attempts remain; a timeout on the final attempt
\* is followed by no sleep: the call ends with None.
C10_TimeoutSleep ==
    \A a \in 0..(req.max_retries - 1) :
        (AttemptMade(a) /\ req.outs[a + 1] = "timeout") =>
            LET i == PositionOf(a)
            IN  IF a < req.max_retries - 1
                THEN /\ i + 2 \in DOMAIN req.events
                     /\ req.events[i + 1] = Sleep(a, req.base_delay * (2 ^ a))
                     /\ req.events[i + 2] = Request(a + 1)
                ELSE Len(req.events) = i /\ req.result = "none"

\* timeouts on all three attempts: sleeps of 2 and 4 with base delay 2, none at the end
C10_Witness ==
    /\ act = "make_gitlab_request"
    /\ req.max_retries = DefaultMaxRetries
    /\ req.base_delay = 2
    /\ req.outs = <<"timeout", "timeout", "timeout">>
    /\ req.events = <<Request(0), Sleep(0, 2), Request(1), Sleep(1, 4), Request(2)>>

(***************************************************************************)
(* Properties of the merge request list (checked under SpecModel).         *)
(***************************************************************************)
NoDuplicateKeys ==
    \A i, j \in DOMAIN data :
        i < j => ~(data[i].repo = data[j].repo /\ data[i].mr = data[j].mr)

SortedByRepoAndNumber ==
    \A i, j \in DOMAIN data :
        i < j =>
            \/ StrLess(data[i].repo, data[j].repo)
            \/ data[i].repo = data[j].repo /\ MrNumber(data[i].mr) <= MrNumber(data[j].mr)

\* C1: after every update_repo_data call, whatever the repository and the item
\* list, the list holds no two entries with the same (repo, mr) and is sorted
\* ascending by (repo name, numeric MR number).
C1_UniqueAndSorted ==
    act = "update_repo_data" => NoDuplicateKeys /\ SortedByRepoAndNumber

\* the entries of the list that do not belong to repo_name, in list order
EntriesOfOthers(items, repo_name) == SelectSeq(items, LAMBDA x : x.repo # repo_name)

\* C20: update_repo_data(A, ...) and clear_repo(A) leave the entries of every
\* other repository as they were, in the same relative order.
C20_Step ==
    act' \in {"update_repo_data", "clear_repo"} =>
        EntriesOfOthers(data', target') = EntriesOfOthers(data, target')

C20_OtherRepositoriesUntouched == [][C20_Step]_vars

\* repository a has been refreshed while the list holds two entries of ab
C20_Witness ==
    /\ act = "update_repo_data"
    /\ target = <<"a">>
    /\ Len(EntriesOfOthers(data, <<"a">>)) = 2
    /\ Len(data) > 2

(***************************************************************************)
(* Properties of the notification gate (checked under SpecGate).           *)
(***************************************************************************)
\* an evaluation has been started, so ev.file names a marker file
Evaluated == ev.path # "none"
\* the chat post of the evaluation was made and answered ok
PostConfirmed == slack_token /\ ev.post = "ok"
\* the evaluation came to the send step
ReachedSend == ev.send_day # 0

\* C2: however often a key is evaluated on one calendar day, at most one chat
\* message is delivered for it on that day.
C2_AtMostOneMessagePerDay ==
    \A f \in Files : sentToday[f] <= 1

\* a key is evaluated again on the day its message was delivered
C2_Witness ==
    /\ Evaluated
    /\ act = "check"
    /\ ev.path = "already"
    /\ sentToday[ev.file] = 1

\* C3: at the send step the marker is written only after a confirmed post; a
\* failed send ends the evaluation with the markers as they were, the key is
\* still unmarked for the day, and the next evaluation of the key on that day
\* passes the marker check and, with pending reviewers, sends again.
C3_State ==
    /\ ev.path = "send_failed" => pc = "idle" /\ ~ev.marked /\ ~PostConfirmed
    /\ ((pc = "mark" \/ ev.marked) /\ ReachedSend) => PostConfirmed
    /\ (ReachedSend /\ ~PostConfirmed) => markers[ev.file] # today
    /\ ev.after_failed_send => ev.path # "already"
    /\ (ev.after_failed_send /\ pc = "idle" /\ ev.fetch = "ok" /\ ev.pending # <<>>) => ReachedSend

C3_Step ==
    (act' = "send" /\ ~(slack_token /\ ev'.post = "ok")) =>
        /\ markers' = markers
        /\ pc' = "idle"
        /\ markers[ev.file] # today

C3_MarkOnlyOnConfirmedSend == [](C3_State) /\ [][C3_Step]_vars

\* a send that failed is followed, the same day, by an evaluation that delivers
C3_Witness ==
    /\ ev.after_failed_send
    /\ ev.path = "sent"
    /\ PostConfirmed
    /\ ev.marked

\* C4: a record with a project id whose approval state has approved_by_all,
\* evaluated while its key is not marked today, gets today's marker and
\* nothing else: no auto-assign, no assignee fetch, no lookup, no chat post.
C4_ApprovedByAllOnlyMarks ==
    (/\ Evaluated
     /\ ev.has_project
     /\ ev.approval.present
     /\ ev.approval.approved_by_all
     /\ ~ev.marked_before) =>
        /\ ev.path = "approved_all"
        /\ pc \in {"mark", "idle"}
        /\ ev.assign = "none"
        /\ ev.fetch = "none"
        /\ ev.looked_up = {}
        /\ ev.posts = 0
        /\ ~ReachedSend
        /\ pc = "idle" => ev.marked /\ markers[ev.file] = ev.mark_day
        /\ act = "mark" => markers[ev.file] = today

\* a fully approved record has just been marked
C4_Witness ==
    /\ act = "mark"
    /\ ev.path = "approved_all"
    /\ ev.approval.approved_by_all
    /\ ev.has_project
    /\ markers[ev.file] = today
    /\ sentToday[ev.file] = 0

\* what the message may say for a person: the plain name or the chat mention
Refers(entry, name) == entry = PlainName(name) \/ entry = Mention(SlackUserId(name))

\* C5: when the fetch yields a non-empty assignee list, the pending reviewers
\* are the assignees that are not approvers; when there are some and the post
\* is confirmed, one message is posted with one entry per pending reviewer and
\* none for an approver, and the key is then marked with the day of the write.
C5_PendingReviewersNotified ==
    (Evaluated /\ ev.fetch = "ok" /\ ev.assignees # <<>>) =>
        /\ \A p \in People :
              Contains(ev.pending, p) <=> (Contains(ev.assignees, p) /\ ~Contains(ev.approved, p))
        /\ (ev.pending # <<>> /\ ReachedSend /\ PostConfirmed) =>
              /\ ev.path = "sent"
              /\ ev.posts = 1
              /\ ev.send_day = today => sentToday[ev.file] = 1
              /\ Len(ev.message) = Len(ev.pending)
              /\ \A i \in DOMAIN ev.pending : Refers(ev.message[i], ev.pending[i])
              /\ \A i \in DOMAIN ev.message, j \in DOMAIN ev.approved :
                    ~Refers(ev.message[i], ev.approved[j])
              /\ pc \in {"mark", "idle"}
              /\ pc = "idle" => ev.marked /\ markers[ev.file] = ev.mark_day
              /\ act = "mark" => markers[ev.file] = today

\* assignees A and B, A has approved: one message that mentions B, key marked today
C5_Witness ==
    /\ act = "mark"
    /\ ev.path = "sent"
    /\ ev.assignees = <<"A", "B">>
    /\ ev.approved = <<"A">>
    /\ ev.pending = <<"B">>
    /\ ev.message = <<Mention(SlackUserId("B"))>>
    /\ sentToday[ev.file] = 1
    /\ markers[ev.file] = today

\* C6: an evaluation that finds today's date in the key's marker ends at the
\* marker check: no auto-assign, no fetch, no lookup, no post, no marker write,
\* and markers, person cache and delivered messages are as they were.
C6_State ==
    (Evaluated /\ ev.marked_before) =>
        /\ pc = "idle"
        /\ ev.path = "already"
        /\ ev.assign = "none"
        /\ ev.fetch = "none"
        /\ ev.looked_up = {}
        /\ ev.posts = 0
        /\ ~ReachedSend
        /\ ~ev.marked

C6_Step ==
    (act' = "check" /\ markers[ev'.file] = today) =>
        /\ pc' = "idle"
        /\ markers' = markers
        /\ person_cache' = person_cache
        /\ sentToday' = sentToday

C6_MarkedTodayShortCircuits == [](C6_State) /\ [][C6_Step]_vars

\* a key marked today has been evaluated again
C6_Witness ==
    /\ act = "check"
    /\ ev.marked_before
    /\ ev.path = "already"
    /\ markers[ev.file] = today

\* C11: every request to the code-hosting API, the MR-detail request of the
\* gate's assignee fetch included, is made by make_gitlab_request, which
\* retries and never lets an exception out; so no failure of an upstream
\* request reaches the caller of the fetch as an exception.
C11_EveryUpstreamCallThroughRetryClient ==
    ev.fetch # "raise"

(***************************************************************************)
(* Properties of the status resolvers (checked under SpecResolve).         *)
(***************************************************************************)
\* the call of the named resolver has returned or raised
Returned(op) == res.op = op /\ res.done

\* C12: when the pipelines-by-SHA query answers with a list of at least one
\* pipeline, get_pipeline_status returns the status and URL of the first
\* entry and has made that one request only, with or without an MR id.
C12_FirstPipelineWins ==
    (/\ Returned("get_pipeline_status")
     /\ res.args.pipelines_data.ok
     /\ res.args.pipelines_data.list # <<>>
     /\ res.args.pipelines_data.list[1].wellformed) =>
        /\ ~res.result.raised
        /\ res.result.status = res.args.pipelines_data.list[1].status
        /\ res.result.url = res.args.pipelines_data.list[1].web_url
        /\ res.result.requests = <<"pipelines">>

\* two pipelines of different status and URL, an MR id given: the first one wins
C12_Witness ==
    /\ Returned("get_pipeline_status")
    /\ res.args.mr_iid = 42
    /\ Len(res.args.pipelines_data.list) = 2
    /\ res.args.pipelines_data.list[1].status = "failed"
    /\ res.args.pipelines_data.list[1].web_url = "p2"
    /\ res.args.pipelines_data.list[2].status = "success"
    /\ res.args.pipelines_data.list[2].web_url = "p1"
    /\ res.result.status = "failed"
    /\ res.result.url = "p2"

\* C13: when the pipelines-by-SHA query answers with an empty list, an MR id
\* is given, the MR detail has a head pipeline and the pipeline-by-id request
\* succeeds, get_pipeline_status returns the status and URL of that pipeline.
C13_HeadPipelineFallback ==
    (/\ Returned("get_pipeline_status")
     /\ res.args.pipelines_data.ok
     /\ res.args.pipelines_data.list = <<>>
     /\ res.args.mr_iid # 0
     /\ res.args.mr_data.ok
     /\ res.args.mr_data.head_pipeline = "present"
     /\ res.args.pipeline_data.ok
     /\ res.args.pipeline_data.entry.wellformed) =>
        /\ ~res.result.raised
        /\ res.result.status = res.args.pipeline_data.entry.status
        /\ res.result.url = res.args.pipeline_data.entry.web_url
        /\ res.result.requests = <<"pipelines", "merge_request", "pipeline">>

\* no pipeline for the SHA, the head pipeline of MR 42 is running
C13_Witness ==
    /\ Returned("get_pipeline_status")
    /\ res.args.pipelines_data.ok
    /\ res.args.pipelines_data.list = <<>>
    /\ res.args.mr_iid = 42
    /\ res.args.mr_data.head_pipeline = "present"
    /\ res.args.pipeline_data.ok
    /\ res.result.status = "running"
    /\ res.result.url = "p2"

\* C14: for every successful approvals answer, approved_except_coverage is
\* (no remaining rule has a name other than exactly 'Coverage-Check') and
\* (approved is false or some remaining rule is named exactly
\* 'Coverage-Check'), and needs_coverage_check is (some remaining rule is
\* named exactly 'Coverage-Check'); with no remaining rule and approved true,
\* approved_except_coverage is false.
C14_ApprovalFlags ==
    (/\ Returned("get_approval_status")
     /\ res.args.approvals_data.ok
     /\ res.args.approvals_data.wellformed) =>
        LET rules == res.args.approvals_data.approval_rules_left
            approved == res.args.approvals_data.approved
            coverage == \E i \in DOMAIN rules : rules[i] = "Coverage-Check"
            other == \E i \in DOMAIN rules : rules[i] # "Coverage-Check"
        IN  /\ ~res.result.raised
            /\ res.result.value.approved_except_coverage = (~other /\ (~approved \/ coverage))
            /\ res.result.value.needs_coverage_check = coverage
            /\ (rules = <<>> /\ approved) => ~res.result.value.approved_except_coverage

\* the only rule left differs from the sentinel in case: it counts as another rule
C14_Witness ==
    /\ Returned("get_approval_status")
    /\ res.args.approvals_data.wellformed
    /\ res.args.approvals_data.approval_rules_left = <<"coverage-check">>
    /\ ~res.args.approvals_data.approved
    /\ ~res.result.value.approved_except_coverage
    /\ ~res.result.value.needs_coverage_check

\* C15: for every successful MR-detail answer, get_merge_status returns
\* 'CONFLICT' exactly when detailed_merge_status is 'conflict' or merge_status
\* is 'cannot_be_merged' or has_conflicts is true, and '' when none is.
C15_ConflictSignals ==
    (/\ Returned("get_merge_status")
     /\ res.args.mr_data.ok
     /\ res.args.mr_data.wellformed) =>
        LET signal == \/ res.args.mr_data.detailed_merge_status = "conflict"
                      \/ res.args.mr_data.merge_status = "cannot_be_merged"
                      \/ res.args.mr_data.has_conflicts = TRUE
        IN  /\ ~res.result.raised
            /\ (res.result.value = "CONFLICT") <=> signal
            /\ ~signal => res.result.value = ""

\* has_conflicts is the only signal of the three that is set
C15_Witness ==
    /\ Returned("get_merge_status")
    /\ res.args.mr_data.wellformed
    /\ res.args.mr_data.detailed_merge_status = "mergeable"
    /\ res.args.mr_data.merge_status = "can_be_merged"
    /\ res.args.mr_data.has_conflicts
    /\ res.result.value = "CONFLICT"

(***************************************************************************)
(* Properties of the fetch worker (checked under SpecWorker).              *)
(***************************************************************************)
\* the worker has completed an iteration for a repository
Iterated == wk.name # <<>>
\* the message last put on the result queue
LastMessage == result_queue[Len(result_queue)]
\* the MRs the list call of the last iteration returned
Listed == IF wk.answer.ok THEN wk.answer.list ELSE <<>>
\* the last iteration ran into an exception
IterationRaised ==
    Iterated /\ ((wk.answer.ok /\ ~wk.answer.wellformed) \/ wk.fault.kind = "bad")
\* what the resolvers return for an MR when upstream answers all its requests well
AllResolvers == {Resolvers[i] : i \in DOMAIN Resolvers}

\* C16: when one of the four resolvers fails for an MR, by a failed request
\* or by an answer of unexpected shape, all four resolvers still run for every
\* MR of the batch, the batch is emitted as 'repo_complete' with one record
\* per MR, and the values of the other resolvers are what they are without
\* the failure.
C16_ResolverFailureIsolated ==
    (Iterated /\ wk.fault.kind # "none") =>
        /\ wk.puts = 1
        /\ LastMessage.type = "repo_complete"
        /\ Len(LastMessage.repo_mrs) = Len(Listed)
        /\ Len(wk.ran) = Len(Listed)
        /\ \A i \in DOMAIN wk.ran : wk.ran[i] = AllResolvers
        /\ \A i \in DOMAIN LastMessage.repo_mrs :
              LET rec == LastMessage.repo_mrs[i]
                  spared(resolver) == ~Hits(wk.fault, i, resolver)
              IN  /\ spared("get_pipeline_status") =>
                        rec.pipeline_status = "success" /\ rec.pipeline_url = "p1"
                  /\ spared("get_approval_status") =>
                        rec.approval_status = Approval(TRUE, FALSE, TRUE, TRUE)
                  /\ spared("get_merge_status") => rec.merge_status = "CONFLICT"
                  /\ spared("get_unresolved_threads_count") => rec.unresolved_threads = 1

\* C17: an exception raised while the worker processes a dequeued repository
\* puts one 'error' message on the result queue and leaves the worker at the
\* top of its loop, alive, with the queued requests untouched; its next
\* dequeue of a repository request starts processing that request.
C17_State ==
    (act = "fetch" /\ IterationRaised) =>
        /\ wk.puts = 1
        /\ LastMessage.type = "error"
        /\ wpc = "get"

C17_Step ==
    /\ (act' = "fetch"
        /\ ((wk'.answer.ok /\ ~wk'.answer.wellformed) \/ wk'.fault.kind = "bad")) =>
          /\ Len(result_queue') = Len(result_queue) + 1
          /\ SubSeq(result_queue', 1, Len(result_queue)) = result_queue
          /\ repo_queue' = repo_queue
          /\ wpc' = "get"
    /\ (act = "fetch" /\ IterationRaised /\ act' = "dequeue"
        /\ Head(repo_queue).kind = "repo") =>
          /\ wpc' = "work"
          /\ current' = Head(repo_queue)

C17_ErrorBatchAndContinue == [](C17_State) /\ [][C17_Step]_vars

\* the first repository ends in an error, the second one gets its batch
C17_Witness ==
    /\ Len(result_queue) = 2
    /\ result_queue[1].type = "error"
    /\ result_queue[2].type = "repo_complete"
    /\ result_queue[2].name = Repositories[2]
    /\ WorkerAlive

\* C18: the worker's loop ends when it dequeues the sentinel and in no other
\* way: a dequeue that times out and an iteration that ends in an error leave
\* the worker at the top of the loop; once the loop has ended no message is
\* put on the result queue.
C18_State ==
    wpc = "exited" => current = Sentinel

C18_Step ==
    /\ act' = "dequeue_timeout" => wpc' = "get"
    /\ act' = "fetch" => wpc' = "get"
    /\ (wpc # "exited" /\ wpc' = "exited") =>
          /\ act' = "dequeue"
          /\ Head(repo_queue) = Sentinel
    /\ (act' = "dequeue" /\ Head(repo_queue) = Sentinel) => wpc' = "exited"
    /\ wpc = "exited" => wpc' = "exited" /\ result_queue' = result_queue

C18_ExitOnSentinelOnly == [](C18_State) /\ [][C18_Step]_vars

\* the loop went on after an error and ended on the sentinel behind both requests
C18_Witness ==
    /\ wpc = "exited"
    /\ current = Sentinel
    /\ repo_queue = <<>>
    /\ Len(result_queue) = 2
    /\ result_queue[1].type = "error"
    /\ result_queue[2].type = "repo_complete"

\* the repository requests the worker has dequeued
RepoRequestsQueued == Cardinality({i \in DOMAIN repo_queue : repo_queue[i].kind = "repo"})
RepoRequestsDequeued == refreshes * Len(Repositories) - RepoRequestsQueued
\* the request dequeued and not yet processed to its end
InFlight == IF current.kind = "repo" THEN 1 ELSE 0

\* C19: the result queue holds one message for every repository request the
\* worker has dequeued and processed; the message of an iteration is either a
\* 'repo_complete' batch with one record per MR of the list call, in list
\* order, or an 'error' message without records; no other step of the worker
\* puts a message.
C19_State ==
    /\ Len(result_queue) = RepoRequestsDequeued - InFlight
    /\ act = "fetch" =>
          /\ wk.puts = 1
          /\ \/ /\ LastMessage.type = "repo_complete"
                /\ LastMessage.name = wk.name
                /\ Len(LastMessage.repo_mrs) = Len(Listed)
                /\ \A i \in DOMAIN Listed :
                      /\ LastMessage.repo_mrs[i].iid = Listed[i]
                      /\ LastMessage.repo_mrs[i].repo_name = wk.name
             \/ /\ LastMessage.type = "error"
                /\ LastMessage.repo_mrs = <<>>

C19_Step ==
    /\ act' # "fetch" => result_queue' = result_queue
    /\ act' = "fetch" =>
          /\ Len(result_queue') = Len(result_queue) + 1
          /\ SubSeq(result_queue', 1, Len(result_queue)) = result_queue

C19_OneMessagePerRequest == [](C19_State) /\ [][C19_Step]_vars

\* a batch for the open MRs 2 and 1, in the order of the list
C19_Witness ==
    /\ act = "fetch"
    /\ Listed = <<2, 1>>
    /\ LastMessage.type = "repo_complete"
    /\ Len(LastMessage.repo_mrs) = 2
    /\ LastMessage.repo_mrs[1].iid = 2
    /\ LastMessage.repo_mrs[2].iid = 1

\* C24: a record with a project id that is not approved by all, evaluated while
\* its key is not marked today, whose fetch yields no assignee, or assignees
\* that have all approved, gets the marker of the day of the write and no
\* lookup and no chat post.
C24_NothingPendingOnlyMarks ==
    (/\ Evaluated
     /\ ev.has_project
     /\ ~ApprovedByAll(ev)
     /\ ~ev.marked_before
     /\ ev.fetch \in {"ok", "non200"}
     /\ \A i \in DOMAIN ev.assignees : Contains(ev.approved, ev.assignees[i])) =>
        /\ ev.path = (IF ev.assignees = <<>> THEN "no_assignees" ELSE "all_approved")
        /\ pc \in {"mark", "idle"}
        /\ ev.looked_up = {}
        /\ ev.posts = 0
        /\ ~ReachedSend
        /\ pc = "idle" => ev.marked /\ markers[ev.file] = ev.mark_day
        /\ act = "mark" => markers[ev.file] = today

\* both assignees have approved: the key has just been marked, nothing was sent
C24_Witness ==
    /\ act = "mark"
    /\ ev.path = "all_approved"
    /\ ev.assignees = <<"A", "B">>
    /\ ev.approved = <<"A", "B">>
    /\ ev.has_project
    /\ markers[ev.file] = today
    /\ sentToday[ev.file] = 0
    /\ ev.posts = 0

\* C30: the auto-assign of the coverage reviewers is attempted only for a
\* record with pipeline 'success', approved_except_coverage and
\* needs_coverage_check; whether the attempt succeeds, returns False or
\* raises, the evaluation goes on to the assignee fetch, and the decision
\* after the fetch is the one the fetched lists call for.
C30_State ==
    /\ ev.assign = "attempted" =>
          /\ ev.pipeline_status = "success"
          /\ ev.approval.present
          /\ ev.approval.approved_except_coverage
          /\ ev.approval.needs_coverage_check
    /\ (ev.fetch # "none" /\ pc # "fetch") =>
          ev.path = (IF ev.fetch = "raise" THEN "exception"
                     ELSE IF ev.assignees = <<>> THEN "no_assignees"
                     ELSE IF ev.pending = <<>> THEN "all_approved"
                     ELSE IF ~ReachedSend THEN "running"
                     ELSE IF PostConfirmed THEN "sent" ELSE "send_failed")

C30_Step ==
    act' = "coverage" =>
        /\ pc' = "fetch"
        /\ ev'.assign = (IF CoverageDue(ev) THEN "attempted" ELSE "none")
        /\ ev'.path = "running"
        /\ markers' = markers

AnswerTo(args, request) ==
    IF request = "pipelines" THEN args.pipelines_data
    ELSE IF request = "merge_request" THEN args.mr_data
    ELSE args.pipeline_data

\* C28: get_pipeline_status returns (None, None), without raising, whenever
\* the pipelines-by-SHA query gave no list entry and there is no MR id (None
\* or 0), or the MR detail request failed, or the MR detail has no head
\* pipeline, or the pipeline-by-id request failed; and a failed
\* pipelines-by-SHA query is followed by the MR detail request when an MR id
\* is given, whose head pipeline then gives the result.
C28_NoneOutsideSuccessfulPaths ==
    Returned("get_pipeline_status") =>
        LET a == res.args
            r == res.result
            noEntry == ~a.pipelines_data.ok \/ a.pipelines_data.list = <<>>
        IN  /\ (/\ noEntry
                /\ \/ a.mr_iid = 0
                   \/ ~a.mr_data.ok
                   \/ a.mr_data.head_pipeline # "present"
                   \/ ~a.pipeline_data.ok) =>
                    /\ ~r.raised
                    /\ r.status = NoneValue
                    /\ r.url = NoneValue
            /\ (~a.pipelines_data.ok /\ a.mr_iid # 0) =>
                    /\ Len(r.requests) >= 2
                    /\ r.requests[2] = "merge_request"
            /\ (/\ ~a.pipelines_data.ok
                /\ a.mr_iid # 0
                /\ a.mr_data.ok
                /\ a.mr_data.head_pipeline = "present"
                /\ a.pipeline_data.ok
                /\ a.pipeline_data.entry.wellformed) =>
                    /\ ~r.raised
                    /\ r.status = a.pipeline_data.entry.status
                    /\ r.url = a.pipeline_data.entry.web_url

\* the pipelines query failed, the detail of MR 42 was asked for and has a
\* null head pipeline: (None, None) after two requests
C28_Witness ==
    /\ Returned("get_pipeline_status")
    /\ ~res.args.pipelines_data.ok
    /\ res.args.mr_iid = 42
    /\ res.args.mr_data.ok
    /\ res.args.mr_data.head_pipeline = "null"
    /\ res.args.pipeline_data.ok
    /\ res.result.status = NoneValue
    /\ res.result.url = NoneValue
    /\ res.result.requests = <<"pipelines", "merge_request">>

\* C29: a resolver whose request fails (make_gitlab_request returns None)
\* returns its default and does not raise: get_pipeline_status (None, None)
\* when the last request it made failed, get_approval_status the three flags
\* false, get_merge_status '', get_unresolved_threads_count 0, and
\* get_merge_requests the empty list.
C29_DefaultsOnFailedRequest ==
    /\ (/\ Returned("get_pipeline_status")
        /\ ~AnswerTo(res.args, res.result.requests[Len(res.result.requests)]).ok) =>
            /\ ~res.result.raised
            /\ res.result.status = NoneValue
            /\ res.result.url = NoneValue
    /\ (Returned("get_approval_status") /\ ~res.args.approvals_data.ok) =>
            /\ ~res.result.raised
            /\ ~res.result.value.approved_by_all
            /\ ~res.result.value.approved_except_coverage
            /\ ~res.result.value.needs_coverage_check
    /\ (Returned("get_merge_status") /\ ~res.args.mr_data.ok) =>
            /\ ~res.result.raised
            /\ res.result.value = ""
    /\ (Returned("get_unresolved_threads_count") /\ ~res.args.discussions_data.ok) =>
            /\ ~res.result.raised
            /\ res.result.value = 0
    /\ (Returned("get_merge_requests") /\ ~res.args.answer.ok) =>
            /\ ~res.result.raised
            /\ res.result.value.wellformed
            /\ res.result.value.list = <<>>

\* the MR list request failed and the call has returned the empty list
C29_Witness ==
    /\ Returned("get_merge_requests")
    /\ ~res.args.answer.ok
    /\ res.result.value.list = <<>>
    /\ res.result.value.wellformed

\* C25: the display title is the MR title when the title has at most 50
\* characters, and its first 50 characters followed by '...' when it has more.
C25_DisplayTitle ==
    Returned("display_title") =>
        LET t == res.args.title
            d == res.result.value
        IN  /\ Len(t) <= 50 => d = t
            /\ Len(t) > 50 =>
                  /\ Len(d) = 53
                  /\ \A i \in 1..50 : d[i] = t[i]
                  /\ \A i \in 51..53 : d[i] = "."

\* a title of 51 characters has been cut to 50 and the dots
C25_Witness ==
    /\ Returned("display_title")
    /\ Len(res.args.title) = 51
    /\ Len(res.result.value) = 53
    /\ res.result.value[50] = res.args.title[50]
    /\ res.result.value[53] = "."

\* the number an MR label sorts by when a label that is missing or is not a
\* number counts as 0
NumberOrZero(mr) == IF MrNumber(mr) = ValueError THEN 0 ELSE MrNumber(mr)

\* C27: the sort does not fail on an entry whose MR label is missing, is a
\* bare '!' or has text after the '!' that is not a number: the list ends up
\* ordered by repository and number, with 0 for the number of such an entry.
C27_SortNeverFails ==
    Returned("_sort_data") =>
        /\ ~res.result.raised
        /\ \A i, j \in DOMAIN res.result.value :
              (i < j /\ res.result.value[i].repo = res.result.value[j].repo) =>
                  NumberOrZero(res.result.value[i].mr) <= NumberOrZero(res.result.value[j].mr)

\* the entries of the list that belong to repo_name, in list order
EntriesOf(items, repo_name) == SelectSeq(items, LAMBDA x : x.repo = repo_name)

\* how often an entry with the label mr occurs in a list
Occurrences(items, mr) == Cardinality({i \in DOMAIN items : items[i].mr = mr})

\* C26: after update_repo_data(r, new_items) the entries of r in the list are
\* the entries of new_items, each as often as new_items has it and keyed
\* '<r>-<mr label>'; an entry r had before that is not in new_items is gone,
\* and with an empty new_items r has no entry.
C26_RepositoryReplaced ==
    Returned("update_repo_data") =>
        LET new_items == res.args.new_items
            r == res.args.repo_name
            entries == EntriesOf(res.result.value, r)
            before == EntriesOf(res.args.items, r)
        IN  /\ Len(entries) = Len(new_items)
            /\ \A i \in DOMAIN new_items :
                  Occurrences(entries, new_items[i].mr) = Occurrences(new_items, new_items[i].mr)
            /\ \A i \in DOMAIN entries : entries[i].key = r \o <<"-">> \o entries[i].mr
            /\ \A i \in DOMAIN before :
                  Occurrences(new_items, before[i].mr) = 0 => Occurrences(entries, before[i].mr) = 0
            /\ new_items = <<>> => entries = <<>>

\* repository 'a' held !2 and !10 and was updated with !10 alone: !2 is gone,
\* the entry of the other repository stays
C26_Witness ==
    /\ Returned("update_repo_data")
    /\ res.args.repo_name = <<"a">>
    /\ Len(EntriesOf(res.args.items, <<"a">>)) = 2
    /\ res.args.items[1].mr = MrLabel(2)
    /\ Len(res.args.new_items) = 1
    /\ res.args.new_items[1].mr = MrLabel(10)
    /\ Len(EntriesOf(res.result.value, <<"a">>)) = 1
    /\ res.result.value[1].mr = MrLabel(10)
    /\ Len(res.result.value) = 2

(***************************************************************************)
(* Properties of the foreground controller (checked under SpecController;  *)
(* C23 under SpecResolve).                                                 *)
(***************************************************************************)
\* C21: the foreground runs no operation that makes a blocking HTTP request:
\* the startup lookups of the user and the project ids and the evaluations
\* of the notification gate run in the background worker only.
C21_ForegroundNeverBlocks ==
    fg = {}

\* how often loadingChanged(False) was emitted
FalseEmissions == Cardinality({i \in DOMAIN emitted : emitted[i] = FALSE})

\* C22: once the worker is started, the loading flag is false exactly when a
\* complete batch has been consumed for every repository with a project id;
\* it turns false in the step that consumes the batch completing that set,
\* with one loadingChanged(False), never turns true again, and
\* loadingChanged(False) is emitted at most once.
C22_State ==
    cpc = "running" =>
        /\ ~loading <=> (produced # {} /\ resolved \subseteq produced)
        /\ FalseEmissions = (IF loading THEN 0 ELSE 1)

C22_Step ==
    cpc = "running" =>
        /\ loading' # loading =>
              /\ act' = "check_results"
              /\ Head(result_queue).type = "repo_complete"
              /\ loading
              /\ ~loading'
              /\ emitted' = Append(emitted, FALSE)
              /\ ~(resolved \subseteq produced)
              /\ resolved \subseteq produced'
        /\ loading' = loading => emitted' = emitted
        /\ ~loading => ~loading'

C22_LoadingEndsWithLastRepository == [](C22_State) /\ [][C22_Step]_vars

\* both repositories have a project id; the messages of two rounds have been
\* consumed, and the loading state has ended with one emission
C22_Witness ==
    /\ cpc = "running"
    /\ act = "check_results"
    /\ resolved = RepositoryNames
    /\ produced = RepositoryNames
    /\ ~loading
    /\ emitted = <<TRUE, FALSE>>
    /\ refreshes = 1
    /\ result_queue = <<>>
    /\ repo_queue = <<>>

\* C23: check_for_notifications hands a record to the gate only if its
\* pipeline status is exactly 'success' and its conflict state is not
\* 'CONFLICT': no record of the batch that fails one of the two is handed on.
C23_OnlyEligibleRecordsGated ==
    Returned("check_for_notifications") =>
        LET batch == res.args.repo_mrs
            passed == res.result.value
        IN  /\ \A i \in DOMAIN passed :
                  /\ passed[i].pipeline_status = "success"
                  /\ passed[i].merge_status # "CONFLICT"
                  /\ \E j \in DOMAIN batch : batch[j] = passed[i]
            /\ \A j \in DOMAIN batch :
                  (batch[j].pipeline_status # "success" \/ batch[j].merge_status = "CONFLICT") =>
                      \A i \in DOMAIN passed : passed[i] # batch[j]

\* of a passing MR with a conflict and a passing MR without, the second alone
\* is handed to the gate
C23_Witness ==
    /\ Returned("check_for_notifications")
    /\ res.args.has_notifier
    /\ res.args.has_project_id
    /\ res.args.repo_mrs = <<BatchRecord(<<"a">>, 1, "success", "CONFLICT"),
                             BatchRecord(<<"a">>, 2, "success", "")>>
    /\ res.result.value = <<BatchRecord(<<"a">>, 2, "success", "")>>


(***************************************************************************)
(* C33.  The worker takes the requests in the order they were put, one at  *)
(* a time, and reports them in that order.                                 *)
(***************************************************************************)
\* the requests of n calls of queue_refresh, in the order they were put
RECURSIVE Rounds(_)
Rounds(n) == IF n = 0 THEN <<>> ELSE Rounds(n - 1) \o RefreshRequests(resolved)

\* the repository requests that wait in repo_queue, in order
Waiting == SelectSeq(repo_queue, LAMBDA item : item.kind = "repo")

\* every request put is reported, in flight or waiting, at its own position
C33_State ==
    LET put == Rounds(refreshes)
        reported == Len(result_queue)
    IN  /\ Len(put) = reported + InFlight + Len(Waiting)
        /\ InFlight = 1 => current = put[reported + 1]
        /\ \A i \in DOMAIN Waiting : Waiting[i] = put[reported + InFlight + i]
        /\ \A k \in DOMAIN result_queue :
              result_queue[k].type = "repo_complete"
                  => result_queue[k].name = put[k].name

\* a request is taken from the head only when none is in flight; a request
\* put while one is in flight is appended and leaves the one in flight alone
C33_Step ==
    /\ act' = "dequeue"
          => /\ InFlight = 0
             /\ repo_queue = <<Head(repo_queue)>> \o repo_queue'
             /\ current' = Head(repo_queue)
             /\ result_queue' = result_queue
    /\ act' = "fetch"
          => /\ InFlight = 1
             /\ Len(result_queue') = Len(result_queue) + 1
             /\ SubSeq(result_queue', 1, Len(result_queue)) = result_queue
             /\ repo_queue' = repo_queue
    /\ act' = "queue_refresh"
          => /\ repo_queue' = repo_queue \o RefreshRequests(resolved)
             /\ Len(RefreshRequests(resolved)) = Len(Repositories)
             /\ current' = current
             /\ wpc' = wpc
             /\ result_queue' = result_queue

Sentinels == SelectSeq(repo_queue, LAMBDA item : item.kind = "sentinel")

\* at most one sentinel is ever put; outside cleanup, a put sentinel means
\* the worker is no longer running
C34_State ==
    /\ Len(Sentinels) + (IF current = Sentinel THEN 1 ELSE 0) <= 1
    /\ (~cleaning /\ (Sentinels # <<>> \/ current = Sentinel)) => ~WorkerAlive

C34_Step ==
    /\ act' = "cleanup_put"
          => /\ WorkerAlive
             /\ repo_queue' = repo_queue \o <<Sentinel>>
             /\ wpc' = wpc
    /\ act' = "cleanup_joined"
          => /\ wpc' \in {"exited", "terminated"}
             /\ wpc \in {"get", "work"} <=> wpc' = "terminated"
             /\ repo_queue' = repo_queue
             /\ ~cleaning'
    /\ act' = "cleanup_not_alive"
          => /\ ~WorkerAlive
             /\ UNCHANGED <<workerVars, controllerVars, modelVars, gateVars>>

\* C34: cleanup with a live worker puts exactly one sentinel behind the queued
\* requests, waits a bounded interval and terminates a worker that is still
\* alive; after it the worker is not running; cleanup without a live worker
\* puts nothing and changes nothing
C34_CleanupStopsWorker == [](C34_State) /\ [][C34_Step]_vars

\* the join timed out behind a queued request while one was in flight: the
\* worker was terminated, the request and the sentinel still queued
C34_Witness ==
    /\ act = "cleanup_joined"
    /\ wpc = "terminated"
    /\ current = RepoRequest(Repositories[1])
    /\ repo_queue = <<RepoRequest(Repositories[2]), Sentinel>>

\* cleanup called again after the worker has exited on the sentinel
C34_WitnessNotAlive ==
    /\ act = "cleanup_not_alive"
    /\ wpc = "exited"
    /\ current = Sentinel
    /\ repo_queue = <<>>


(***************************************************************************)
(* C32.  Startup that ends in a configuration failure.                     *)
(***************************************************************************)
C32_State ==
    cpc = "stopped" =>
        /\ ~loading
        /\ emitted[Len(emitted)] = FALSE
        /\ wpc = "none"
        /\ resolved = {}
        /\ repo_queue = <<>>
        /\ result_queue = <<>>

C32_Step ==
    cpc = "stopped" =>
        /\ cpc' = "stopped"
        /\ wpc' = "none"
        /\ repo_queue' = <<>>
        /\ act' # "worker_serves"

\* C32: when initialize_data ends in a configuration failure (no repository
\* configured, no token, authentication failed), loading is false, the worker
\* is never started and no refresh request is ever put on repo_queue
\* afterwards, the calls of the refresh timer included
C32_FailedStartupEnqueuesNothing == [](C32_State) /\ [][C32_Step]_vars

\* the refresh timer has fired after the failed startup
C32_Witness ==
    /\ cpc = "stopped"
    /\ act = "queue_refresh"
    /\ refreshes = 1
    /\ repo_queue = <<>>
    /\ ~loading

(***************************************************************************)
(* C39.  An 'error' message consumed by check_results.                     *)
(***************************************************************************)
C39_Step ==
    /\ (act' = "check_results" /\ Head(result_queue).type = "error")
          => /\ result_queue' = Tail(result_queue)
             /\ UNCHANGED <<data, repos_loaded, produced, loading, emitted, fg>>
    /\ repos_loaded' # repos_loaded
          => /\ act' = "check_results"
             /\ Head(result_queue).type = "repo_complete"
             /\ repos_loaded' = repos_loaded \cup {Head(result_queue).name}

\* a repository counts as loaded only if a batch of it was consumed, and
\* loading lasts while a repository with a project id does not count
C39_State ==
    /\ repos_loaded = produced
    /\ (cpc = "running" /\ ~(resolved \subseteq repos_loaded)) => loading

\* C39: consuming an 'error' message leaves the MR list, the set of loaded
\* repositories and the loading flag as they were and starts no gate
\* evaluation; a repository counts as loaded only by a consumed batch of its
\* own, so one whose every refresh ends in an error never counts
C39_ErrorMessageChangesNothing == [](C39_State) /\ [][C39_Step]_vars

\* both rounds of requests have been served and consumed; every refresh of
\* repository a ended in an error, and loading has not ended
C39_Witness ==
    /\ act = "check_results"
    /\ cpc = "running"
    /\ resolved = RepositoryNames
    /\ refreshes = 1
    /\ repo_queue = <<>>
    /\ result_queue = <<>>
    /\ repos_loaded = {Repositories[2]}
    /\ loading

(***************************************************************************)
(* C40.  A failed fetch of the open-MR list.                               *)
(***************************************************************************)
\* the answers to the list request that are a failed request
FailedListAnswers == {answer \in ListAnswers : ~answer.ok}

\* what the worker puts for repo_name when the list request fails
FailedListPuts(repo_name) ==
    {ProcessRepo(repo_name, answer, NoFault).puts : answer \in FailedListAnswers}

\* what the worker puts for repo_name when the repository has no open MR
NoOpenMrPuts(repo_name) ==
    ProcessRepo(repo_name, [ok |-> TRUE, wellformed |-> TRUE, list |-> <<>>], NoFault).puts

C40_State ==
    \A repo_name \in RepositoryNames :
        /\ FailedListPuts(repo_name) = {<<RepoComplete(repo_name, <<>>)>>}
        /\ FailedListPuts(repo_name) = {NoOpenMrPuts(repo_name)}
        /\ RepoComplete(repo_name, <<>>) \in ServedMessages(repo_name)

C40_Step ==
    \A repo_name \in RepositoryNames :
        (/\ act' = "check_results"
         /\ <<Head(result_queue)>> \in FailedListPuts(repo_name))
            => /\ EntriesOf(data', repo_name) = <<>>
               /\ EntriesOfOthers(data', repo_name) = EntriesOfOthers(data, repo_name)
               /\ repo_name \in repos_loaded'
               /\ fg' = fg

\* C40: a failed open-MR list fetch looks like a repository with no open MR:
\* the worker puts a 'repo_complete' batch with an empty record list, not an
\* error, and on consuming it the foreground removes the entries of that
\* repository from the list and counts the repository as loaded
C40_FailedListIsEmptyBatch == [](C40_State) /\ [][C40_Step]_vars

\* the second round's batch of repository a was empty and has been consumed:
\* a is loaded and has no entry, the entry of ab is still there
C40_Witness ==
    /\ act = "check_results"
    /\ target = Repositories[1]
    /\ refreshes = 1
    /\ repo_queue = <<>>
    /\ result_queue = <<>>
    /\ repos_loaded = RepositoryNames
    /\ EntriesOf(data, Repositories[1]) = <<>>
    /\ Len(EntriesOf(data, Repositories[2])) = 1


(***************************************************************************)
(* C35.  The records of a consumed batch that reach the gate.              *)
(***************************************************************************)
\* C35: for every complete batch the foreground consumes for a repository
\* with a project id, every record of it with pipeline 'success' and no
\* conflict is handed to the notification gate exactly once.
C35_EligibleRecordsGatedOnce ==
    (Returned("check_for_notifications") /\ res.args.has_project_id) =>
        res.result.value = SelectSeq(res.args.repo_mrs, Eligible)


(***************************************************************************)
(* C31.  The person cache.                                                 *)
(***************************************************************************)
C31_Step ==
    /\ \A p \in People :
          person_cache[p] # NotCached => person_cache'[p] = person_cache[p]
    /\ act' = "format"
          => /\ pc' = "send"
             /\ Len(ev'.message) = Len(ev.pending)
             /\ \A i \in DOMAIN ev.pending :
                   LET p == ev.pending[i]
                   IN  /\ person_cache[p] # NotCached
                             => /\ p \notin ev'.looked_up
                                /\ ev'.message[i] =
                                       (IF person_cache[p] = NoneId THEN PlainName(p)
                                        ELSE Mention(person_cache[p]))
                       /\ person_cache'[p] \in {NotCached, NoneId}
                             => ev'.message[i] = PlainName(p)
                       /\ ev'.message[i] \in {PlainName(p), Mention(SlackUserId(p))}

\* C31: once a name has an entry in the person cache (a chat user id or a
\* null), every later translation of it returns the entry without a lookup
\* and the entry never changes; a lookup that fails or finds nobody does not
\* keep the message from going on to the send, the plain name is used
C31_CacheEntriesAreFinal == [][C31_Step]_vars

\* A was cached as not found by an earlier message and is named plainly
\* without a lookup; B was looked up for this message and is mentioned
C31_Witness ==
    /\ act = "format"
    /\ slack_token
    /\ ev.pending = <<"A", "B">>
    /\ person_cache["A"] = NoneId
    /\ "A" \notin ev.looked_up
    /\ "B" \in ev.looked_up
    /\ ev.message = <<PlainName("A"), Mention(SlackUserId("B"))>>

(***************************************************************************)
(* C36.  A record without a project id.                                    *)
(***************************************************************************)
\* C36: a record that reaches the gate without a project id causes nothing:
\* no marker is written, no upstream request is made and no message is sent,
\* and the key stays eligible.
C36_NoProjectIdIsNoOp ==
    /\ (Evaluated /\ ~ev.has_project) =>
          /\ ev.path \in {"already", "no_project"}
          /\ pc = "idle"
          /\ ~ev.marked
          /\ ev.assign = "none"
          /\ ev.fetch = "none"
          /\ ev.looked_up = {}
          /\ ev.posts = 0
          /\ ~ReachedSend
    /\ ev.path = "no_project" =>
          /\ ~ev.has_project
          /\ should_notify(markers, ev.file, today)

\* the key was marked on day 1; on day 2 a record of it without a project id
\* has been evaluated and the marker still holds day 1
C36_Witness ==
    /\ act = "check"
    /\ ev.path = "no_project"
    /\ ev.approval.approved_by_all
    /\ today = 2
    /\ markers[ev.file] = 1

(***************************************************************************)
(* C37.  The assignee fetch answered with another status than 200, or      *)
(* raising.                                                                *)
(***************************************************************************)
\* C37: a non-200 answer to the gate's MR fetch is handled like an MR without
\* assignees: the marker is written with the day of the write and no message
\* is sent; a fetch that raises leaves the marker as it was and the key
\* eligible.
C37_Non200MarksExceptionDoesNot ==
    /\ ev.fetch = "non200" =>
          /\ ev.assignees = <<>>
          /\ ev.path = "no_assignees"
          /\ pc \in {"mark", "idle"}
          /\ ev.posts = 0
          /\ ~ReachedSend
          /\ pc = "idle" =>
                /\ ev.marked
                /\ markers[ev.file] = ev.mark_day
                /\ today = ev.mark_day => ~should_notify(markers, ev.file, today)
    /\ (ev.fetch = "ok" /\ ev.assignees = <<>>) => ev.path = "no_assignees"
    /\ ev.fetch = "raise" =>
          /\ ev.path = "exception"
          /\ pc = "idle"
          /\ ~ev.marked
          /\ ev.posts = 0
          /\ should_notify(markers, ev.file, today)

\* the fetch was answered with another status than 200 and the key has been
\* marked with today, no message sent
C37_Witness ==
    /\ act = "mark"
    /\ ev.fetch = "non200"
    /\ ev.marked
    /\ markers[ev.file] = today
    /\ sentToday[ev.file] = 0

\* the fetch has raised on day 2 for a key marked on day 1
C37_WitnessRaise ==
    /\ act = "fetch"
    /\ ev.fetch = "raise"
    /\ today = 2
    /\ markers[ev.file] = 1

(***************************************************************************)
(* C38.  The day of the eligibility check and the day of the marker.       *)
(***************************************************************************)
C38_Step ==
    act' = "mark" => ev'.mark_day = ev.check_day

====
